---------------------------- MODULE Spec2Model ----------------------------
(***************************************************************************)
(* Model of psql_utils: the record facade (get / save / remove / count /   *)
(* get_list) of record.py and record_sync.py + record_utils.py over a      *)
(* table of rows, and the pool wrapper run_with_pool of __init__.py and    *)
(* sync.py.                                                                *)
(*                                                                         *)
(* Conventions.  A scalar column value is an integer, 0 standing for       *)
(* Python's None / SQL NULL (real values are >= 1).  A JSON value is a     *)
(* tagged record (null, number or object).  A row is a function from       *)
(* Columns to values; the row with id = None stands for "no row" (the      *)
(* None that select_one returns).  Keyword arguments (data) are a          *)
(* function over DataCols, an absent keyword being None, which is what     *)
(* data.get(key) yields for it.  exclude_data_keys is left at its default  *)
(* (empty) in every modelled save call.                                    *)
(***************************************************************************)
EXTENDS Integers, Sequences, FiniteSets, TLC

VARIABLES table, nextId, pc, last, procs, connector, pools, task, events, ran,
          callers, heap

vars == <<table, nextId, pc, last, procs, connector, pools, task, events, ran,
          callers, heap>>

----------------------------------------------------------------------------
(* Bounds of the model *)

\* ids handed out by the table's serial id column are 1..MaxId
MaxId == 2

----------------------------------------------------------------------------
(* Values *)

None == 0

Vals == {1, 2}

Range(s) == {s[i] : i \in 1..Len(s)}

EmptyMap == [k \in {} |-> 0]

NullJ == [t |-> "null", n |-> 0, m |-> EmptyMap]

Num(n) == [t |-> "num", n |-> n, m |-> EmptyMap]

Obj(f) == [t |-> "obj", n |-> 0, m |-> f]

\* isinstance(x, dict)
IsDict(j) == j.t = "obj"

\* the dict {k: j}
Wrap(k, j) == Obj(k :> j)

\* d.get(k): the value under k, None when k is absent
DictGet(d, k) == IF k \in DOMAIN d.m THEN d.m[k] ELSE NullJ

\* old.update(new): every key of new set in old
DictUpdate(old, new) ==
    Obj([k \in DOMAIN old.m \cup DOMAIN new.m |->
            IF k \in DOMAIN new.m THEN new.m[k] ELSE old.m[k]])

\* json.dumps(val): the text handed to the driver, kept apart from the value
JsonDumps(val) == [enc |-> val]

\* what a json column holds (and the driver hands back as a dict) once the
\* text produced by json.dumps is stored in it
JsonLoads(txt) == txt.enc

----------------------------------------------------------------------------
(* merge_json / merge_sub_json *)

\* mutant: the new value replaces the old one, nothing is merged
merge_json_Replaces(new, old) == new

merge_json(new, old) ==
    IF IsDict(new) /\ IsDict(old) THEN DictUpdate(old, new) ELSE new

\* merge_json's `old` argument after the call: updated in place when both are dicts
merge_json_old(new, old) ==
    IF IsDict(new) /\ IsDict(old) THEN DictUpdate(old, new) ELSE old

\* the keys of data1 the loop of merge_sub_json acts on
SubMergedKeys(data1, replace_keys) == DOMAIN data1.m \ Range(replace_keys)

merge_sub_json(data0, data1, replace_keys) ==
    Obj([k \in DOMAIN data0.m \cup SubMergedKeys(data1, replace_keys) |->
            IF k \in SubMergedKeys(data1, replace_keys)
            THEN IF DictGet(data0, k) = NullJ
                 THEN data1.m[k]
                 ELSE merge_json(data0.m[k], data1.m[k])
            ELSE data0.m[k]])

\* merge_sub_json's `data1` argument after the call: its nested dicts are the
\* `old` of merge_json, updated in place
merge_sub_json_old(data0, data1, replace_keys) ==
    Obj([k \in DOMAIN data1.m |->
            IF k \in SubMergedKeys(data1, replace_keys) /\ DictGet(data0, k) # NullJ
            THEN merge_json_old(data0.m[k], data1.m[k])
            ELSE data1.m[k]])

----------------------------------------------------------------------------
(* Rows and the table *)

ScalarCols == {"id", "k1", "k2", "name", "updated_at", "created_at"}

JsonCols == {"data_json", "sub_json"}

Columns == ScalarCols \cup JsonCols

DataCols == Columns \ {"id"}

\* the order in which the keyword arguments are iterated
DataOrder == <<"k1", "k2", "name", "updated_at", "created_at">>

NullOf(c) == IF c \in JsonCols THEN NullJ ELSE None

NoRow == [c \in Columns |-> NullOf(c)]

NoData == [c \in DataCols |-> NullOf(c)]

\* `if old:` on what select_one returned
Exists(r) == r["id"] # None

\* the record type's declaration, the same in every call
UniqKeys == <<"k1", "k2">>

OptionalKeys == <<"k2">>

JsonKeys == <<"data_json">>

SubJsonKeys == <<"sub_json">>

----------------------------------------------------------------------------
(* Errors and statement results *)

Err(kind, key, oid) == [kind |-> kind, key |-> key, oid |-> oid]

NoErr == Err("none", "", 0)

Cond(k, v) == [k |-> k, v |-> v]

\* a row satisfies `k1=%s AND k2=%s ...`; col = NULL is never true
Match(r, conds) ==
    \A i \in 1..Len(conds) :
        /\ conds[i].v # None
        /\ r[conds[i].k] # None
        /\ r[conds[i].k] = conds[i].v

Matching(tbl, conds) == {r \in tbl : Match(r, conds)}

\* SELECT ... WHERE conds LIMIT 1: any matching row (no ORDER BY), else None
select_one(tbl, conds) ==
    IF Matching(tbl, conds) = {} THEN {NoRow} ELSE Matching(tbl, conds)

SetMax(S) == CHOOSE x \in S : \A y \in S : y <= x

\* select_one_only(table, c('max(id)'), ...): None when nothing matches
select_max_id(tbl, conds) ==
    IF Matching(tbl, conds) = {} THEN None
    ELSE SetMax({r["id"] : r \in Matching(tbl, conds)})

\* append_extra: key=%s for every remaining keyword that is not None
RECURSIVE append_extra(_, _, _)
append_extra(data, popped, i) ==
    IF i > Len(DataOrder) THEN <<>>
    ELSE IF DataOrder[i] \notin popped /\ data[DataOrder[i]] # None
         THEN <<Cond(DataOrder[i], data[DataOrder[i]])>> \o append_extra(data, popped, i + 1)
         ELSE append_extra(data, popped, i + 1)

Extra(ignore_extra_keys, data, popped) ==
    IF ignore_extra_keys THEN <<>> ELSE append_extra(data, popped, 1)

\* the loop of get over uniq_keys: the conditions, get_max_id, and the
\* '<key> is required' failure of the first absent key that is not optional
RECURSIVE UniqLoop(_, _, _, _, _)
UniqLoop(uniq_keys, optional_keys, required_uniq_keys, data, i) ==
    IF i > Len(uniq_keys)
    THEN [conds |-> <<>>, get_max_id |-> FALSE, err |-> NoErr]
    ELSE LET key == uniq_keys[i]
             val == data[key]
             rest == UniqLoop(uniq_keys, optional_keys, required_uniq_keys, data, i + 1)
         IN  IF val = None /\ required_uniq_keys /\ key \in Range(optional_keys)
             THEN [rest EXCEPT !.get_max_id = TRUE]
             ELSE IF val = None /\ required_uniq_keys
             THEN [conds |-> <<>>, get_max_id |-> TRUE,
                   err |-> Err("key_required", key, 0)]
             ELSE [rest EXCEPT !.conds = <<Cond(key, val)>> \o @,
                               !.get_max_id = @ \/ val = None]

GetResult(r, e, stmts) == [row |-> r, err |-> e, stmts |-> stmts]

\* get() without the test of len(uniq_keys) == 0
Get_Unguarded(tbl, id, uniq_keys, optional_keys, required_uniq_keys, ignore_extra_keys, data) ==
    {GetResult(r, NoErr, <<"SELECT">>) :
        r \in select_one(tbl, (IF id # None THEN <<Cond("id", id)>> ELSE <<>>)
                              \o Extra(ignore_extra_keys, data, {}))}

\* get(): the set of possible results (row or NoRow, error, statements run)
Get(tbl, id, uniq_keys, optional_keys, required_uniq_keys, ignore_extra_keys, data) ==
    IF id # None
    THEN {GetResult(r, NoErr, <<"SELECT">>) :
             r \in select_one(tbl, <<Cond("id", id)>>
                                   \o Extra(ignore_extra_keys, data, {}))}
    ELSE IF Len(uniq_keys) = 0 /\ required_uniq_keys
    THEN IF ignore_extra_keys
         THEN {GetResult(NoRow, NoErr, <<>>)}
         ELSE {GetResult(NoRow, Err("uniq_keys_required", "", 0), <<>>)}
    ELSE LET scan == UniqLoop(uniq_keys, optional_keys, required_uniq_keys, data, 1)
             extra == Extra(ignore_extra_keys, data, Range(uniq_keys))
             mid == select_max_id(tbl, scan.conds \o extra)
         IN  IF scan.err # NoErr
             THEN {GetResult(NoRow, scan.err, <<>>)}
             ELSE IF scan.get_max_id
             THEN IF mid = None
                  THEN {GetResult(NoRow, NoErr, <<"SELECT">>)}
                  ELSE {GetResult(r, NoErr, <<"SELECT", "SELECT">>) :
                           r \in select_one(tbl, <<Cond("id", mid)>> \o extra)}
             ELSE {GetResult(r, NoErr, <<"SELECT">>) :
                      r \in select_one(tbl, scan.conds \o extra)}

----------------------------------------------------------------------------
(* save *)

\* one call of the facade: save(id=, keys=, replace_keys=, on_saved=, data)
\* or remove(id=, on_removed=, data); now is what int(time()) returns during
\* the call.  The operators below take `sync`: FALSE for record.py, TRUE for
\* record_sync.py + record_utils.py.
Call(op, id, data, keys, replace_keys, now, cb) ==
    [op |-> op, id |-> id, data |-> data, keys |-> keys,
     replace_keys |-> replace_keys, now |-> now, cb |-> cb, coro |-> FALSE]

\* the same call with a callback defined with `async def`: calling it gives a
\* coroutine, which runs only when it is awaited
Coro(call, coro) == [call EXCEPT !.coro = coro]

\* mutant: a given value is written even when it equals the stored one
RECURSIVE KeysLoop_NoSkip(_, _, _, _)
KeysLoop_NoSkip(ks, data, old, i) ==
    IF i > Len(ks) THEN <<>>
    ELSE IF data[ks[i]] # None
         THEN <<Cond(ks[i], data[ks[i]])>> \o KeysLoop_NoSkip(ks, data, old, i + 1)
         ELSE KeysLoop_NoSkip(ks, data, old, i + 1)

\* for key in keys: the (column, value) pairs of the values that are given
\* and, for an existing record, differ from the stored ones
RECURSIVE KeysLoop(_, _, _, _)
KeysLoop(ks, data, old, i) ==
    IF i > Len(ks) THEN <<>>
    ELSE IF data[ks[i]] # None /\ ~(Exists(old) /\ old[ks[i]] = data[ks[i]])
         THEN <<Cond(ks[i], data[ks[i]])>> \o KeysLoop(ks, data, old, i + 1)
         ELSE KeysLoop(ks, data, old, i + 1)

\* for key in json_keys: the merged value, json-encoded, always appended
RECURSIVE JsonLoop(_, _, _, _, _)
JsonLoop(ks, replace_keys, data, old, i) ==
    IF i > Len(ks) THEN <<>>
    ELSE IF data[ks[i]] # NullJ
         THEN <<Cond(ks[i], JsonDumps(
                    IF Exists(old) /\ ks[i] \notin Range(replace_keys)
                    THEN merge_json(data[ks[i]], old[ks[i]])
                    ELSE data[ks[i]]))>>
              \o JsonLoop(ks, replace_keys, data, old, i + 1)
         ELSE JsonLoop(ks, replace_keys, data, old, i + 1)

\* for key in sub_json_keys: the merged value, json-encoded, always appended
RECURSIVE SubJsonLoop(_, _, _, _, _)
SubJsonLoop(ks, replace_keys, data, old, i) ==
    IF i > Len(ks) THEN <<>>
    ELSE IF data[ks[i]] # NullJ
         THEN <<Cond(ks[i], JsonDumps(
                    IF Exists(old)
                    THEN merge_sub_json(data[ks[i]], old[ks[i]], replace_keys)
                    ELSE data[ks[i]]))>>
              \o SubJsonLoop(ks, replace_keys, data, old, i + 1)
         ELSE SubJsonLoop(ks, replace_keys, data, old, i + 1)

\* merge_sub_json raises AttributeError: old[key].items() on a value that is
\* no dict, or data0.get on a new value that is no dict
SubJsonFails(ks, replace_keys, data, old) ==
    \E i \in 1..Len(ks) :
        /\ data[ks[i]] # NullJ
        /\ Exists(old)
        /\ \/ ~IsDict(old[ks[i]])
           \/ ~IsDict(data[ks[i]]) /\ SubMergedKeys(old[ks[i]], replace_keys) # {}

\* the loaded old record once the merges have run: its json values (and the
\* nested dicts of its sub-json values) are updated in place
OldAfterMerge(replace_keys, data, old) ==
    [c \in Columns |->
        IF c \in Range(JsonKeys) /\ data[c] # NullJ /\ c \notin Range(replace_keys)
        THEN merge_json_old(data[c], old[c])
        ELSE IF c \in Range(SubJsonKeys) /\ data[c] # NullJ
        THEN merge_sub_json_old(data[c], old[c], replace_keys)
        ELSE old[c]]

\* rkeys/args up to the updated_at stamp: record.py 168-199 (keys only) and
\* prepare_save of record_utils.py (keys + uniq_keys)
prepare_save(sync, call, old) ==
    KeysLoop(IF sync THEN call.keys \o UniqKeys ELSE call.keys, call.data, old, 1)
    \o JsonLoop(JsonKeys, call.replace_keys, call.data, old, 1)
    \o SubJsonLoop(SubJsonKeys, call.replace_keys, call.data, old, 1)
    \o (IF "updated_at" \in Range(call.keys) /\ call.data["updated_at"] = None
        THEN <<Cond("updated_at", call.now)>> ELSE <<>>)

\* the prospective unique-key values: the given ones, the missing taken from old
uniq_full_data(data, old) ==
    [c \in DataCols |->
        IF c \in Range(UniqKeys)
        THEN IF data[c] = None /\ Exists(old) THEN old[c] ELSE data[c]
        ELSE NullOf(c)]

\* mutant: a changed unique key goes unnoticed
uniq_changed_Never(data, old) == FALSE

\* get_uniq_data(uniq_keys, old_record, data)[0], and the uniq_changed of
\* record.py 202-218
uniq_changed(data, old) ==
    /\ Exists(old)
    /\ \E i \in 1..Len(UniqKeys) : old[UniqKeys[i]] # uniq_full_data(data, old)[UniqKeys[i]]

\* record.py computes the changed unique keys only when called with an id
UniqChecked(sync, call, old) ==
    /\ (sync \/ call.id # None)
    /\ uniq_changed(call.data, old)

\* record.py 205-218: the changed unique keys appended to rkeys/args; in
\* record_sync.py prepare_save has appended them already
UniqSets(sync, call, old) ==
    IF ~sync /\ call.id # None
    THEN KeysLoop(UniqKeys, uniq_full_data(call.data, old), old, 1)
    ELSE <<>>

\* mutant: the insert branch forgets the unique keys
InsertUniqSets_Dropped(sync, call) == <<>>

\* record.py 244-248: for a new record the given unique keys are appended
InsertUniqSets(sync, call) ==
    IF ~sync THEN KeysLoop(UniqKeys, call.data, NoRow, 1) ELSE <<>>

CreatedAt(call) ==
    IF "created_at" \in Range(call.keys) /\ call.data["created_at"] = None
    THEN <<Cond("created_at", call.now)>> ELSE <<>>

\* what a column holds after the driver has bound a value to it
Stored(c, v) == IF c \in JsonCols THEN JsonLoads(v) ELSE v

RECURSIVE ApplySet(_, _, _)
ApplySet(r, sets, i) ==
    IF i > Len(sets) THEN r
    ELSE ApplySet([r EXCEPT ![sets[i].k] = Stored(sets[i].k, sets[i].v)], sets, i + 1)

\* UPDATE table SET rkeys WHERE id=%s
update(tbl, sets, id) ==
    {IF r["id"] = id THEN ApplySet(r, sets, 1) ELSE r : r \in tbl}

\* mutant: a unique constraint on the unique keys refuses a second row
insert_Constrained(tbl, sets, nid) ==
    LET new == ApplySet([NoRow EXCEPT !["id"] = nid], sets, 1)
    IN  IF \E r \in tbl : \A i \in 1..Len(UniqKeys) : r[UniqKeys[i]] = new[UniqKeys[i]]
        THEN tbl
        ELSE tbl \cup {new}

\* INSERT INTO table (rkeys) VALUES (...) returning id
insert(tbl, sets, nid) ==
    tbl \cup {ApplySet([NoRow EXCEPT !["id"] = nid], sets, 1)}

\* DELETE FROM table WHERE id=%s
delete(tbl, id) == {r \in tbl : r["id"] # id}

\* the outcome of a call: the table and the id sequence after it, what it
\* returned or raised, the statements it executed, the callbacks it invoked
Outcome(tbl, nid, ret, err, stmts, cbs) ==
    [tbl |-> tbl, nid |-> nid, ret |-> ret, err |-> err, stmts |-> stmts, cbs |-> cbs]

\* mutant: a save by id goes on when get finds no row
SaveLookup_Unchecked(tbl, call) ==
    IF call.id # None
    THEN Get(tbl, call.id, <<>>, <<>>, TRUE, FALSE, NoData)
    ELSE Get(tbl, None, UniqKeys, OptionalKeys, TRUE, TRUE,
             uniq_full_data(call.data, NoRow))

\* save, step 1: load the existing record, by id or by the unique keys
SaveLookup(tbl, call) ==
    IF call.id # None
    THEN {IF Exists(g.row) THEN g
          ELSE GetResult(NoRow, Err("not_exists", "", call.id), g.stmts) :
             g \in Get(tbl, call.id, <<>>, <<>>, TRUE, FALSE, NoData)}
    ELSE Get(tbl, None, UniqKeys, OptionalKeys, TRUE, TRUE,
             uniq_full_data(call.data, NoRow))

\* mutant: the prospective values are never looked up
SaveCheck_Skipped(tbl, sync, call, old) == {GetResult(NoRow, NoErr, <<>>)}

\* save, step 2 (existing record whose unique keys change): the lookup of
\* the prospective values and the conflict it may raise
SaveCheck(tbl, sync, call, old) ==
    IF UniqChecked(sync, call, old)
    THEN {IF g.err = NoErr /\ Exists(g.row)
          THEN GetResult(g.row, Err("uniq_conflict", "", g.row["id"]), g.stmts)
          ELSE GetResult(NoRow, g.err, g.stmts) :
             g \in Get(tbl, None, UniqKeys, OptionalKeys, TRUE, TRUE,
                       uniq_full_data(call.data, old))}
    ELSE {GetResult(NoRow, NoErr, <<>>)}

UpdateSets(sync, call, old) == prepare_save(sync, call, old) \o UniqSets(sync, call, old)

InsertSets(sync, call) ==
    prepare_save(sync, call, NoRow) \o InsertUniqSets(sync, call) \o CreatedAt(call)

\* mutant: the callback is invoked before the write is executed
on_saved_BeforeWrite(sync, call, old, id, stmts) ==
    IF call.cb
    THEN <<[old |-> old, id |-> id, at |-> Len(stmts) - 1,
            sync |-> sync, done |-> ~call.coro \/ ~sync]>>
    ELSE <<>>

\* `if on_saved: ret = on_saved(old, id)`, and in record.py `if
\* asyncio.iscoroutine(ret): await ret`.  stmts are the statements executed
\* when the callback is invoked; done tells whether the callback's body has
\* run when save returns.
on_saved(sync, call, old, id, stmts) ==
    IF call.cb
    THEN <<[old |-> old, id |-> id, at |-> Len(stmts),
            sync |-> sync, done |-> ~call.coro \/ ~sync]>>
    ELSE <<>>

\* save, step 3: the UPDATE (or nothing, when no column changed) and on_saved
SaveUpdate(tbl, nid, sync, call, old, stmts) ==
    IF Len(UpdateSets(sync, call, old)) = 0
    THEN Outcome(tbl, nid, old["id"], NoErr, stmts, <<>>)
    ELSE Outcome(update(tbl, UpdateSets(sync, call, old), old["id"]), nid, old["id"], NoErr,
                 stmts \o <<"UPDATE">>,
                 on_saved(sync, call, OldAfterMerge(call.replace_keys, call.data, old),
                          old["id"], stmts \o <<"UPDATE">>))

\* save, step 3 for a new record: the INSERT and on_saved(None, nid)
SaveInsert(tbl, nid, sync, call, stmts) ==
    IF Len(InsertSets(sync, call)) = 0
    THEN Outcome(tbl, nid, None, Err("sql_error", "", 0), stmts \o <<"INSERT">>, <<>>)
    ELSE Outcome(insert(tbl, InsertSets(sync, call), nid), nid + 1, nid, NoErr,
                 stmts \o <<"INSERT">>,
                 on_saved(sync, call, NoRow, nid, stmts \o <<"INSERT">>))

Failed(tbl, nid, err, stmts) == Outcome(tbl, nid, None, err, stmts, <<>>)

\* save(): every possible outcome of one call run alone against tbl
save(tbl, nid, sync, call) ==
    UNION {
        IF g.err # NoErr THEN {Failed(tbl, nid, g.err, g.stmts)}
        ELSE IF ~Exists(g.row) THEN {SaveInsert(tbl, nid, sync, call, g.stmts)}
        ELSE IF SubJsonFails(SubJsonKeys, call.replace_keys, call.data, g.row)
        THEN {Failed(tbl, nid, Err("AttributeError", "", 0), g.stmts)}
        ELSE {IF chk.err # NoErr
              THEN Failed(tbl, nid, chk.err, g.stmts \o chk.stmts)
              ELSE SaveUpdate(tbl, nid, sync, call, g.row, g.stmts \o chk.stmts) :
                 chk \in SaveCheck(tbl, sync, call, g.row)}
        : g \in SaveLookup(tbl, call)}

----------------------------------------------------------------------------
(* remove *)

\* mutant: the DELETE and the callback run whether or not a row was found
remove_Unguarded(tbl, nid, call) ==
    {IF g.err # NoErr THEN Failed(tbl, nid, g.err, g.stmts)
     ELSE Outcome(delete(tbl, g.row["id"]), nid, IF Exists(g.row) THEN 1 ELSE 0, NoErr,
                  g.stmts \o <<"DELETE">>,
                  IF call.cb THEN <<[old |-> g.row, id |-> g.row["id"]]>> ELSE <<>>) :
        g \in Get(tbl, call.id, UniqKeys, OptionalKeys, TRUE, TRUE, call.data)}

\* remove(): get(..., ignore_extra_keys=True), then DELETE by id and
\* on_removed(old); returns True (1) when a row was found, False (0) otherwise
remove(tbl, nid, call) ==
    {IF g.err # NoErr THEN Failed(tbl, nid, g.err, g.stmts)
     ELSE IF Exists(g.row)
     THEN Outcome(delete(tbl, g.row["id"]), nid, 1, NoErr, g.stmts \o <<"DELETE">>,
                  IF call.cb THEN <<[old |-> g.row, id |-> g.row["id"]]>> ELSE <<>>)
     ELSE Outcome(tbl, nid, 0, NoErr, g.stmts, <<>>) :
        g \in Get(tbl, call.id, UniqKeys, OptionalKeys, TRUE, TRUE, call.data)}

----------------------------------------------------------------------------
(* The facade run one call at a time: a caller invokes a call, the handler *)
(* runs alone against the table, the caller takes the result.              *)

DataOf(k1, k2, name) ==
    [NoData EXCEPT !["k1"] = k1, !["k2"] = k2, !["name"] = name]

\* save calls on the scalar columns: by id or by unique keys, any value absent
SaveCalls ==
    {Call("save", id, DataOf(k1, k2, name), <<"name">>, <<>>, 1, TRUE) :
        id \in 0..MaxId, k1 \in {None} \cup Vals, k2 \in {None} \cup Vals,
        name \in {None, 1}}

\* remove calls: by id, or by unique keys (any of them absent)
RemoveCalls ==
    {Call("remove", id, NoData, <<>>, <<>>, 1, cb) : id \in 1..MaxId, cb \in BOOLEAN}
    \cup
    {Call("remove", None, DataOf(k1, k2, None), <<>>, <<>>, 1, cb) :
        k1 \in {None} \cup Vals, k2 \in {None} \cup Vals, cb \in BOOLEAN}

NoCall == Call("none", None, NoData, <<>>, <<>>, 0, FALSE)

NoOutcome == Outcome({}, 1, None, NoErr, <<>>, <<>>)

Logged(call, o) ==
    [call |-> call, ret |-> o.ret, err |-> o.err, stmts |-> o.stmts, cbs |-> o.cbs]

\* the callers of the concurrent runs, none of them in a call
Procs == {1, 2}

IdleProc == [pc |-> "idle", sync |-> FALSE, call |-> NoCall, old |-> NoRow,
             ret |-> None, err |-> NoErr, stmts |-> <<>>, race |-> "no"]

\* the module-level _connector: not installed, or installed with its pool
\* (None until connected); the pools created so far, open or closed
NoPool == 0

NoConnector == [installed |-> FALSE, pool |-> NoPool]

\* a statement call of run_with_pool: its position, whether the caller
\* supplied a cursor, the attempts and reconnects made, the pool it has a
\* connection of and the number of connections it has borrowed, the driver
\* calls it made (acquire, execute), the failure of its last attempt, the
\* error it raised
IdleTask == [pc |-> "idle", cur |-> FALSE, tries |-> 0, reconnects |-> 0,
             held |-> NoPool, borrowed |-> 0, calls |-> 0, failed |-> "",
             err |-> ""]

\* a caller of the concurrent pool runs: where it is in run(), the pool it
\* found closing, the pools its reconnects created
IdleCaller == [pc |-> "idle", stale |-> NoPool, created |-> <<>>]

\* the TableName objects built so far and the lists their joins point to;
\* list 1 is the default argument `joins=[]` of TableName.__init__, made once
EmptyHeap == [objs |-> <<>>, lists |-> <<<<>>>>]

Init ==
    /\ table = {}
    /\ nextId = 1
    /\ pc = "idle"
    /\ last = Logged(NoCall, NoOutcome)
    /\ procs = [p \in Procs |-> IdleProc]
    /\ connector = NoConnector
    /\ pools = <<>>
    /\ task = IdleTask
    /\ events = <<>>
    /\ ran = <<>>
    /\ callers = [p \in Procs |-> IdleCaller]
    /\ heap = EmptyHeap

Invoke ==
    /\ pc = "idle"
    /\ \E call \in SaveCalls \cup RemoveCalls : last' = Logged(call, NoOutcome)
    /\ pc' = "called"
    /\ UNCHANGED <<table, nextId, procs, connector, pools, task, events, ran, callers, heap>>

Done(o) ==
    /\ o.nid <= MaxId + 1
    /\ table' = o.tbl
    /\ nextId' = o.nid
    /\ last' = Logged(last.call, o)
    /\ pc' = "returned"
    /\ UNCHANGED <<procs, connector, pools, task, events, ran, callers, heap>>

SaveAsync ==
    /\ pc = "called" /\ last.call.op = "save"
    /\ \E o \in save(table, nextId, FALSE, last.call) : Done(o)

SaveSync ==
    /\ pc = "called" /\ last.call.op = "save"
    /\ \E o \in save(table, nextId, TRUE, last.call) : Done(o)

Remove ==
    /\ pc = "called" /\ last.call.op = "remove"
    /\ \E o \in remove(table, nextId, last.call) : Done(o)

Return ==
    /\ pc = "returned"
    /\ pc' = "idle"
    /\ last' = Logged(NoCall, NoOutcome)
    /\ UNCHANGED <<table, nextId, procs, connector, pools, task, events, ran, callers, heap>>

Next == Invoke \/ SaveAsync \/ SaveSync \/ Remove \/ Return

Spec == Init /\ [][Next]_vars

----------------------------------------------------------------------------
(* The facade run one call at a time on one record with json columns *)

\* json documents: the empty object, flat objects, and flat objects nested
\* under "a" one and two levels deep
FlatDocs == {Wrap("a", Num(1)), Wrap("b", Num(2))}

Nested(S) == {Wrap("a", d) : d \in S}

JsonDocs == {Obj(EmptyMap)} \cup FlatDocs \cup Nested(FlatDocs) \cup Nested(Nested(FlatDocs))

\* replace_keys: none, the json column, the object key "a"
ReplaceChoices == {<<>>, <<"data_json">>, <<"a">>}

\* saves of the record (k1, k2) = (1, 1) that supply a value for one json
\* column (or for none)
JsonSaveCalls ==
    {Call("save", None, [DataOf(1, 1, None) EXCEPT ![c] = d], <<"name">>, rk, 1, TRUE) :
        c \in JsonCols, d \in JsonDocs \cup {NullJ}, rk \in ReplaceChoices}

\* saves of the same record, by id or by unique keys, that supply scalar
\* values only, with updated_at declared in keys or not
ScalarSaveCalls ==
    {Coro(Call("save", id, [DataOf(1, 1, name) EXCEPT !["updated_at"] = ua], keys, <<>>,
               now, TRUE), coro) :
        id \in {None, 1}, name \in {None, 1}, ua \in {None, 1},
        keys \in {<<"name">>, <<"name", "updated_at">>}, now \in Vals, coro \in BOOLEAN}

InvokeJson ==
    /\ pc = "idle"
    /\ \E call \in JsonSaveCalls \cup ScalarSaveCalls : last' = Logged(call, NoOutcome)
    /\ pc' = "called"
    /\ UNCHANGED <<table, nextId, procs, connector, pools, task, events, ran, callers, heap>>

NextJson == InvokeJson \/ SaveAsync \/ SaveSync \/ Return

SpecJson == Init /\ [][NextJson]_vars

----------------------------------------------------------------------------
(* The filter compiler and the list and count queries *)

\* filter values: None, an int, a str, a list of ints and strs.  A str is
\* held with its text and with the segments that text.split(',') gives.
FNone == [t |-> "none", n |-> 0, s |-> "", l |-> <<>>]

FInt(n) == [t |-> "int", n |-> n, s |-> "", l |-> <<>>]

RECURSIVE Join(_, _)
Join(ws, sep) ==
    IF ws = <<>> THEN ""
    ELSE IF Len(ws) = 1 THEN ws[1]
    ELSE ws[1] \o sep \o Join(Tail(ws), sep)

FStr(parts) == [t |-> "str", n |-> 0, s |-> Join(parts, ","), l |-> parts]

FList(l) == [t |-> "list", n |-> 0, s |-> "", l |-> l]

IGNORE == FStr(<<"__IGNORE__">>)

op_map ==
    ("gt" :> ">") @@ ("lt" :> "<") @@ ("lte" :> "<=") @@ ("gte" :> ">=") @@
    ("neq" :> "!=") @@ ("like" :> " like ") @@ ("unlike" :> " not like ") @@
    ("in" :> " in ") @@ ("match" :> " ~* ") @@ ("unmatch" :> " !~* ") @@
    ("similar" :> " similar to ") @@ ("unsimilar" :> " not similar to ")

\* a filter key is held as its words, the pieces between underscores;
\* re_op matches a key of two words or more that ends in an operator name
KeyName(key) == Join(key, "_")

re_op_search(key) ==
    IF Len(key) >= 2 /\ key[Len(key)] \in DOMAIN op_map THEN key[Len(key)] ELSE ""

\* the strs that re_num matches and isdigit accepts, with their value
Digits == ("1" :> 1) @@ ("2" :> 2) @@ ("3" :> 3)

guess_type(val) ==
    IF val.t = "str"
    THEN IF val.s \in DOMAIN Digits THEN "int"
         ELSE IF val.s \in {"true", "false"} THEN "boolean"
         ELSE ""
    ELSE IF val.t = "int" THEN "int"
    ELSE ""

json_types == {"int", "float", "boolean", "text"}

\* format_key for a key without '.': the key itself, or its path under the
\* json column data
format_key(key, val, json_keys, keys) ==
    IF keys = <<>> THEN key
    ELSE IF key \in Range(keys) THEN key
    ELSE IF "data" \notin Range(json_keys) THEN key
    ELSE LET tp0    == IF key \in json_types THEN key ELSE ""
             asName == IF tp0 = "" /\ key = "as" THEN key ELSE ""
             path   == IF tp0 # "" \/ asName # "" THEN <<>> ELSE <<key>>
             out    == "data#>>'{" \o Join(path, ", ") \o "}'"
             tp     == IF tp0 # "" THEN tp0 ELSE guess_type(val)
             cast   == IF tp # "" THEN "cast(" \o out \o " as " \o tp \o ")" ELSE out
         IN  IF asName # "" THEN cast \o " as " \o asName ELSE cast

\* a predicate (key, clause, value) of the query; fkey and op repeat the
\* column and the operator of the clause for the database to evaluate
Pred(key, sql, val, fkey, op) ==
    [key |-> key, sql |-> sql, val |-> val, fkey |-> fkey, op |-> op]

Compiled(query, err) == [query |-> query, err |-> err]

Placeholders(n) == Join([i \in 1..n |-> "%s"], ", ")

\* a str that holds a sub-select
SubSelects == {"select id from t"}

HasSelect(val) == \E i \in 1..Len(val.l) : val.l[i] \in SubSelects

Split(val) == FList([i \in 1..Len(val.l) |-> FStr(<<val.l[i]>>)])

RECURSIVE append_query(_, _, _, _, _)
append_query(query, key, val, json_keys, keys) ==
    IF val.t = "none" THEN Compiled(query, NoErr)
    ELSE IF val.t = "list"
    THEN IF Len(val.l) = 0 THEN Compiled(query, Err("EmptyRows", "", None))
         ELSE LET fkey == format_key(KeyName(key), val.l[1], json_keys, keys)
              IN  Compiled(Append(query,
                      Pred(KeyName(key),
                           fkey \o " in (" \o Placeholders(Len(val.l)) \o ")",
                           val, fkey, " in ")), NoErr)
    ELSE LET m  == re_op_search(key)
             op == IF m # "" THEN op_map[m] ELSE "="
             k  == IF m # "" THEN SubSeq(key, 1, Len(key) - 1) ELSE key
         IN  IF m = "in"
             THEN IF val.t # "str" THEN Compiled(query, Err("AttributeError", "", None))
                  ELSE IF HasSelect(val)
                  THEN Compiled(Append(query,
                           Pred(KeyName(k), KeyName(k) \o op \o "(" \o val.s \o ")",
                                IGNORE, KeyName(k), "subselect")), NoErr)
                  ELSE append_query(query, k, Split(val), json_keys, keys)
             ELSE LET fkey == format_key(KeyName(k), val, json_keys, keys)
                  IN  Compiled(Append(query,
                          Pred(KeyName(k), fkey \o op \o "%s", val, fkey, op)), NoErr)

\* sort_query as a stable partition on membership in sort_keys
sort_query_Partition(query, sort_keys) ==
    LET IsKey(q)  == q.key \in Range(sort_keys)
        NotKey(q) == q.key \notin Range(sort_keys)
    IN  SelectSeq(query, IsKey) \o SelectSeq(query, NotKey)

RECURSIVE sort_query(_, _)
sort_query(query, sort_keys) ==
    IF sort_keys = <<>> THEN query
    ELSE LET IsKey(q)  == q.key = sort_keys[1]
             NotKey(q) == q.key # sort_keys[1]
         IN  SelectSeq(query, IsKey) \o sort_query(SelectSeq(query, NotKey), Tail(sort_keys))

RECURSIVE QueryArgs(_)
QueryArgs(query) ==
    IF query = <<>> THEN <<>>
    ELSE LET v == query[1].val
         IN  (IF v.t = "list" THEN v.l ELSE IF v = IGNORE THEN <<>> ELSE <<v>>)
             \o QueryArgs(Tail(query))

record_query_to_sql(query, part_sql, args) ==
    [sql   |-> Join([i \in 1..Len(query) |-> query[i].sql]
                    \o (IF part_sql # "" THEN <<part_sql>> ELSE <<>>), " AND "),
     args  |-> QueryArgs(query) \o args,
     query |-> query,
     err   |-> NoErr]

\* for key, val in data.items(): append_query, the first error raised
RECURSIVE DataLoop(_, _, _, _, _)
DataLoop(query, data, json_keys, keys, i) ==
    IF i > Len(data) THEN Compiled(query, NoErr)
    ELSE LET c == append_query(query, data[i].key, data[i].val, json_keys, keys)
         IN  IF c.err # NoErr THEN c
             ELSE DataLoop(c.query, data, json_keys, keys, i + 1)

gen_query(args, sort_keys, part_sql, json_keys, keys, data) ==
    LET c == DataLoop(<<>>, data, json_keys, keys, 1)
    IN  IF c.err # NoErr
        THEN [sql |-> "", args |-> <<>>, query |-> <<>>, err |-> c.err]
        ELSE record_query_to_sql(sort_query(c.query, sort_keys), part_sql, args)

\* the database: the value bound to a placeholder, compared with a column
Param(v) == IF v.t = "int" THEN v.n ELSE Digits[v.s]

Satisfies(r, p) ==
    /\ r[p.fkey] # None
    /\ CASE p.op = "="    -> r[p.fkey] = Param(p.val)
         [] p.op = "!="   -> r[p.fkey] # Param(p.val)
         [] p.op = ">"    -> r[p.fkey] > Param(p.val)
         [] p.op = "<"    -> r[p.fkey] < Param(p.val)
         [] p.op = ">="   -> r[p.fkey] >= Param(p.val)
         [] p.op = "<="   -> r[p.fkey] <= Param(p.val)
         [] p.op = " in " -> \E i \in 1..Len(p.val.l) : r[p.fkey] = Param(p.val.l[i])
         [] OTHER         -> FALSE

\* every clause names a column of the table
WellFormed(query) == \A i \in 1..Len(query) : query[i].fkey \in ScalarCols

Selected(tbl, query) ==
    {r \in tbl : \A i \in 1..Len(query) : Satisfies(r, query[i])}

\* ORDER BY id desc
RECURSIVE IdDesc(_)
IdDesc(rows) ==
    IF rows = {} THEN <<>>
    ELSE LET top == CHOOSE r \in rows : \A o \in rows : o["id"] <= r["id"]
         IN  <<top>> \o IdDesc(rows \ {top})

Limit(rows, size) ==
    IF size = None THEN rows
    ELSE SubSeq(rows, 1, IF size < Len(rows) THEN size ELSE Len(rows))

select(tbl, query, size) == Limit(IdDesc(Selected(tbl, query)), size)

pg_count(tbl, query) == Cardinality(Selected(tbl, query))

QueryCall(op, filter, size) == [op |-> op, filter |-> filter, size |-> size]

QueryOutcome(tbl, nid, ret, rows, err, stmts) ==
    [tbl |-> tbl, nid |-> nid, ret |-> ret, rows |-> rows, err |-> err, stmts |-> stmts]

\* record_utils.prepare_get_list and prepare_count: the compiled filter
prepare_get_list(call) == gen_query(<<>>, <<>>, "", <<>>, <<>>, call.filter)

prepare_count(call) == gen_query(<<>>, <<>>, "", <<>>, <<>>, call.filter)

get_list(tbl, nid, sync, call) ==
    LET g == IF sync THEN prepare_get_list(call)
             ELSE gen_query(<<>>, <<>>, "", <<>>, <<>>, call.filter)
    IN  IF g.err.kind = "EmptyRows" THEN QueryOutcome(tbl, nid, None, <<>>, NoErr, <<>>)
        ELSE IF g.err # NoErr THEN QueryOutcome(tbl, nid, None, <<>>, g.err, <<>>)
        ELSE IF ~WellFormed(g.query)
        THEN QueryOutcome(tbl, nid, None, <<>>, Err("sql_error", "", None), <<"SELECT">>)
        ELSE QueryOutcome(tbl, nid, None, select(tbl, g.query, call.size), NoErr, <<"SELECT">>)

count(tbl, nid, sync, call) ==
    LET g == IF sync THEN prepare_count(call)
             ELSE gen_query(<<>>, <<>>, "", <<>>, <<>>, call.filter)
    IN  IF g.err # NoErr THEN QueryOutcome(tbl, nid, None, <<>>, g.err, <<>>)
        ELSE IF ~WellFormed(g.query)
        THEN QueryOutcome(tbl, nid, None, <<>>, Err("sql_error", "", None), <<"SELECT">>)
        ELSE QueryOutcome(tbl, nid, pg_count(tbl, g.query), <<>>, NoErr, <<"SELECT">>)

\* the filter keys and, for each, the values a caller gives it
FilterKeys == {<<"k1">>, <<"k2", "in">>, <<"name", "neq">>}

FilterVals(key) ==
    IF key[Len(key)] = "in"
    THEN {FNone, FStr(<<"1", "2">>), FList(<<>>), FList(<<FInt(1)>>)}
    ELSE {FNone, FInt(1), FList(<<>>), FList(<<FInt(1), FInt(2)>>)}

Item(key, val) == [key |-> key, val |-> val]

\* the filter mappings of at most two keys, in either order
Filters ==
    {<<>>}
    \cup {<<Item(k, v)>> : k \in FilterKeys, v \in UNION {FilterVals(x) : x \in FilterKeys}}
    \cup {<<Item(k, v), Item(j, w)>> :
            k \in FilterKeys, j \in FilterKeys,
            v \in UNION {FilterVals(x) : x \in FilterKeys},
            w \in UNION {FilterVals(x) : x \in FilterKeys}}

TypedFilters ==
    {f \in Filters :
        /\ \A i \in 1..Len(f) : f[i].val \in FilterVals(f[i].key)
        /\ \A i \in 1..Len(f) : \A j \in 1..Len(f) : i # j => f[i].key # f[j].key}

QueryCalls ==
    {QueryCall("get_list", f, size) : f \in TypedFilters, size \in {None, 1}}
    \cup {QueryCall("count", f, None) : f \in TypedFilters}

\* the saves that fill the table
SeedCalls ==
    {Call("save", None, DataOf(k1, k2, name), <<"name">>, <<>>, 1, FALSE) :
        k1 \in Vals, k2 \in Vals, name \in {None, 1}}

QueryLogged(call, o) ==
    [call |-> call, ret |-> o.ret, rows |-> o.rows, err |-> o.err, stmts |-> o.stmts]

InvokeQuery ==
    /\ pc = "idle"
    /\ \/ \E call \in SeedCalls : last' = Logged(call, NoOutcome)
       \/ \E call \in QueryCalls :
             last' = QueryLogged(call, QueryOutcome(table, nextId, None, <<>>, NoErr, <<>>))
    /\ pc' = "called"
    /\ UNCHANGED <<table, nextId, procs, connector, pools, task, events, ran, callers, heap>>

QueryDone(o) ==
    /\ last' = QueryLogged(last.call, o)
    /\ pc' = "returned"
    /\ UNCHANGED <<table, nextId, procs, connector, pools, task, events, ran, callers, heap>>

GetListAsync ==
    /\ pc = "called" /\ last.call.op = "get_list"
    /\ QueryDone(get_list(table, nextId, FALSE, last.call))

GetListSync ==
    /\ pc = "called" /\ last.call.op = "get_list"
    /\ QueryDone(get_list(table, nextId, TRUE, last.call))

CountAsync ==
    /\ pc = "called" /\ last.call.op = "count"
    /\ QueryDone(count(table, nextId, FALSE, last.call))

CountSync ==
    /\ pc = "called" /\ last.call.op = "count"
    /\ QueryDone(count(table, nextId, TRUE, last.call))

NextQuery ==
    \/ InvokeQuery \/ SaveAsync
    \/ GetListAsync \/ GetListSync \/ CountAsync \/ CountSync
    \/ Return

SpecQuery == Init /\ [][NextQuery]_vars

----------------------------------------------------------------------------
(* Properties of save and remove run one call at a time *)

\* the handler of the pending call runs in this step
Handled == pc = "called" /\ pc' = "returned"

Issued(kind, stmts) == Cardinality({i \in 1..Len(stmts) : stmts[i] = kind})

\* the prospective unique-key values of save(id=A, ...): the supplied
\* values, the missing ones taken from A
Prospective(call, A) ==
    [k \in Range(UniqKeys) |-> IF call.data[k] # None THEN call.data[k] ELSE A[k]]

\* row r holds every (non-null) value of vals
Holds(r, vals) == \A k \in DOMAIN vals : vals[k] # None => r[k] = vals[k]

RowById(tbl, id) == CHOOSE r \in tbl : r["id"] = id

HasId(tbl, id) == \E r \in tbl : r["id"] = id

\* the unique keys a call must supply are supplied
RequiredGiven(call) ==
    \A k \in Range(UniqKeys) \ Range(OptionalKeys) : call.data[k] # None

C1_Case(tbl, call) ==
    /\ call.op = "save" /\ call.id # None /\ HasId(tbl, call.id)
    /\ ~Holds(RowById(tbl, call.id), Prospective(call, RowById(tbl, call.id)))
    /\ \E B \in tbl : /\ B["id"] # call.id
                      /\ Holds(B, Prospective(call, RowById(tbl, call.id)))

\* C1: save(id=A, ...) whose prospective unique-key values differ from A's
\* and are held by another row B fails with the uniqueness conflict naming
\* such a row's id, issues no UPDATE and no INSERT, and leaves the table as
\* it was.
C1_ConflictRejected ==
    [][(Handled /\ C1_Case(table, last.call)) =>
          /\ last'.err.kind = "uniq_conflict"
          /\ \E B \in table :
                /\ B["id"] = last'.err.oid
                /\ B["id"] # last.call.id
                /\ Holds(B, Prospective(last.call, RowById(table, last.call.id)))
          /\ Issued("UPDATE", last'.stmts) = 0
          /\ Issued("INSERT", last'.stmts) = 0
          /\ table' = table]_vars

\* a conflict raised for prospective values made of a supplied k1 and A's own k2
C1_Witness ==
    /\ pc = "returned" /\ last.call.op = "save" /\ last.call.id # None
    /\ last.err.kind = "uniq_conflict"
    /\ last.call.data["k1"] # None /\ last.call.data["k2"] = None
    /\ \E A \in table, B \in table :
          /\ A["id"] = last.call.id /\ B["id"] = last.err.oid /\ A["id"] # B["id"]
          /\ A["k2"] # None /\ A["k1"] # last.call.data["k1"]
          /\ B["k1"] = last.call.data["k1"] /\ B["k2"] = A["k2"]

\* no row holds every supplied unique-key value
NoMatch(tbl, call) ==
    ~\E r \in tbl : Holds(r, [k \in Range(UniqKeys) |-> call.data[k]])

C3_Case(tbl, call) ==
    /\ call.op = "save" /\ call.id = None
    /\ RequiredGiven(call)
    /\ NoMatch(tbl, call)

\* C3: save() without id (its required unique keys given), when no row
\* matches the supplied unique-key values, issues exactly one INSERT and no
\* UPDATE, adds exactly one row, which carries every supplied unique-key
\* value, and returns that row's id, the one the INSERT returned.
C3_InsertsOnce ==
    [][(Handled /\ C3_Case(table, last.call)) =>
          /\ last'.err = NoErr
          /\ Issued("INSERT", last'.stmts) = 1
          /\ Issued("UPDATE", last'.stmts) = 0
          /\ last'.ret = nextId /\ nextId' = nextId + 1
          /\ ~HasId(table, last'.ret)
          /\ \E r \in table' :
                /\ table' = table \cup {r}
                /\ r["id"] = last'.ret
                /\ \A k \in Range(UniqKeys) :
                      last.call.data[k] # None => r[k] = last.call.data[k]]_vars

\* a second row inserted by a save that supplied both unique keys
C3_Witness ==
    /\ pc = "returned" /\ last.call.op = "save" /\ last.call.id = None
    /\ last.stmts = <<"SELECT", "INSERT">>
    /\ last.ret = 2 /\ Cardinality(table) = 2
    /\ \E r \in table : /\ r["id"] = 2
                        /\ r["k1"] = last.call.data["k1"]
                        /\ r["k2"] = last.call.data["k2"] /\ r["k2"] # None

\* two different rows with the same unique-key tuple
SameTuple(r1, r2) ==
    /\ r1["id"] # r2["id"]
    /\ \A k \in Range(UniqKeys) : r1[k] = r2[k]

\* C4: after any sequence of save() and remove() calls run one at a time,
\* starting from the empty table, no two rows share a unique-key tuple.
C4_TupleUnique == \A r1 \in table, r2 \in table : ~SameTuple(r1, r2)

\* two rows with both unique keys set, the second one moved by save(id=...)
\* onto a free tuple that shares k1 with the first
C4_Witness ==
    /\ pc = "returned" /\ last.call.op = "save" /\ last.call.id # None
    /\ last.stmts = <<"SELECT", "SELECT", "UPDATE">>
    /\ \E r1 \in table, r2 \in table :
          /\ r1["id"] # r2["id"] /\ r2["id"] = last.call.id
          /\ r1["k1"] = r2["k1"] /\ r1["k2"] # None /\ r2["k2"] # None
          /\ r1["k2"] # r2["k2"]

C8_Case(tbl, call) ==
    /\ call.op = "remove"
    /\ IF call.id # None THEN ~HasId(tbl, call.id)
       ELSE RequiredGiven(call) /\ NoMatch(tbl, call)

\* C8: remove() called with an id or a unique-key combination that matches
\* no row returns false, issues no DELETE, invokes no on_removed callback
\* and leaves the table unchanged.
C8_RemoveMissing ==
    [][(Handled /\ C8_Case(table, last.call)) =>
          /\ last'.err = NoErr
          /\ last'.ret = 0
          /\ Issued("DELETE", last'.stmts) = 0
          /\ last'.cbs = <<>>
          /\ table' = table]_vars

\* remove by unique keys, with a callback registered, finding nothing in a
\* table that holds a row with the same k1
C8_Witness ==
    /\ pc = "returned" /\ last.call.op = "remove" /\ last.call.id = None
    /\ last.call.cb /\ last.ret = 0 /\ last.err = NoErr
    /\ last.call.data["k2"] # None
    /\ \E r \in table : r["k1"] = last.call.data["k1"]

----------------------------------------------------------------------------
(* Properties of save on a record with json columns *)

\* the call addresses an existing record, by id or by its unique keys
Addressed(tbl, call) ==
    IF call.id # None THEN {r \in tbl : r["id"] = call.id}
    ELSE IF RequiredGiven(call)
         THEN {r \in tbl : Holds(r, [k \in Range(UniqKeys) |-> call.data[k]])}
         ELSE {}

OldOf(tbl, call) == CHOOSE r \in Addressed(tbl, call) : TRUE

Supplied(call) == {c \in DataCols : call.data[c] # NullOf(c)}

C2_Case(tbl, call) ==
    /\ call.op = "save"
    /\ Addressed(tbl, call) # {}
    /\ \A c \in Supplied(call) : call.data[c] = OldOf(tbl, call)[c]

\* C2 as claimed: for an existing record, whatever columns are declared, a
\* save() whose supplied values all equal the stored ones returns the
\* existing id and issues no UPDATE.
C2_AsClaimed ==
    [][(Handled /\ C2_Case(table, last.call)) =>
          /\ last'.err = NoErr
          /\ last'.ret = OldOf(table, last.call)["id"]
          /\ Issued("UPDATE", last'.stmts) = 0]_vars

\* C2 amended: for an existing record, a save() whose supplied values all
\* equal the stored ones, that supplies no json or sub-json value and does
\* not leave a declared updated_at to be stamped, returns the existing id,
\* issues no UPDATE and leaves the table as it was.
C2_NoChangeNoUpdate ==
    [][(/\ Handled /\ C2_Case(table, last.call)
        /\ Supplied(last.call) \cap JsonCols = {}
        /\ ~("updated_at" \in Range(last.call.keys) /\ last.call.data["updated_at"] = None)) =>
          /\ last'.err = NoErr
          /\ last'.ret = OldOf(table, last.call)["id"]
          /\ Issued("UPDATE", last'.stmts) = 0
          /\ table' = table]_vars

\* a save by unique keys that supplies the stored name and the stored
\* updated_at, with updated_at declared, and returns without an UPDATE
C2_Witness ==
    /\ pc = "returned" /\ last.call.op = "save" /\ last.call.id = None
    /\ last.call.keys = <<"name", "updated_at">>
    /\ last.call.data["name"] # None /\ last.call.data["updated_at"] # None
    /\ \E r \in table : /\ r["id"] = last.ret
                        /\ r["name"] = last.call.data["name"]
                        /\ r["updated_at"] = last.call.data["updated_at"]
    /\ last.stmts = <<"SELECT">>

C6_Case(tbl, call) ==
    /\ call.op = "save"
    /\ Addressed(tbl, call) # {}
    /\ IsDict(call.data["data_json"])
    /\ IsDict(OldOf(tbl, call)["data_json"])

\* C6: saving object N in a json_keys column of an existing row that holds
\* object O stores the shallow merge of O and N (the keys of both, N's value
\* under every key of N, O's value under the others), and exactly N when
\* the column is in replace_keys.
C6_ShallowMerge ==
    [][(Handled /\ C6_Case(table, last.call)) =>
          LET O == OldOf(table, last.call)["data_json"].m
              N == last.call.data["data_json"].m
              S == RowById(table', OldOf(table, last.call)["id"])["data_json"]
          IN  /\ last'.err = NoErr
              /\ HasId(table', OldOf(table, last.call)["id"])
              /\ IsDict(S)
              /\ IF "data_json" \in Range(last.call.replace_keys)
                 THEN S.m = N
                 ELSE /\ DOMAIN S.m = DOMAIN O \cup DOMAIN N
                      /\ \A k \in DOMAIN N : S.m[k] = N[k]
                      /\ \A k \in DOMAIN O \ DOMAIN N : S.m[k] = O[k]]_vars

\* {"b": 2} saved onto a stored {"a": 1}: the row holds {"a": 1, "b": 2}
C6_Witness ==
    /\ pc = "returned" /\ last.call.op = "save"
    /\ last.call.data["data_json"] = Wrap("b", Num(2))
    /\ last.call.replace_keys = <<>>
    /\ Issued("UPDATE", last.stmts) = 1
    /\ \E r \in table :
          /\ r["id"] = last.ret
          /\ r["data_json"] = Obj(("a" :> Num(1)) @@ ("b" :> Num(2)))

\* the recursive merge of O and N: at every depth the keys of both, N's
\* value under a key of N (merged with O's when both are objects)
RECURSIVE DeepMerge(_, _)
DeepMerge(O, N) ==
    IF IsDict(O) /\ IsDict(N)
    THEN Obj([k \in DOMAIN O.m \cup DOMAIN N.m |->
                IF k \notin DOMAIN N.m THEN O.m[k]
                ELSE IF k \notin DOMAIN O.m THEN N.m[k]
                ELSE DeepMerge(O.m[k], N.m[k])])
    ELSE N

C7_Case(tbl, call) ==
    /\ call.op = "save"
    /\ Addressed(tbl, call) # {}
    /\ IsDict(call.data["sub_json"])
    /\ IsDict(OldOf(tbl, call)["sub_json"])

\* C7 as claimed: saving object N in a sub_json_keys column of an existing
\* row that holds object O stores the recursive merge of O and N (outside
\* the replace-keys): a key of O absent from N is kept at every depth.
C7_DeepMerge ==
    [][(Handled /\ C7_Case(table, last.call)) =>
          LET O == OldOf(table, last.call)["sub_json"]
              N == last.call.data["sub_json"]
              S == RowById(table', OldOf(table, last.call)["id"])["sub_json"]
          IN  /\ last'.err = NoErr
              /\ IsDict(S)
              /\ \A k \in DOMAIN DeepMerge(O, N).m \ Range(last.call.replace_keys) :
                    /\ k \in DOMAIN S.m
                    /\ S.m[k] = DeepMerge(O, N).m[k]]_vars

----------------------------------------------------------------------------
(* Properties of the list and count queries *)

HasEmptyList(filter) == \E i \in 1..Len(filter) : filter[i].val = FList(<<>>)

\* C9 as claimed: for a filter mapping in which some value is an empty
\* list, get_list and count both short-circuit: no statement is executed,
\* no error is raised and the result is empty.
C9_EmptyListShortCircuits ==
    [][(/\ Handled /\ last.call.op \in {"get_list", "count"}
        /\ HasEmptyList(last.call.filter)) =>
          /\ last'.err = NoErr
          /\ last'.stmts = <<>>
          /\ last'.rows = <<>>]_vars

----------------------------------------------------------------------------
(* Two callers in save() at once.  save() awaits each statement, and no    *)
(* transaction spans them: a caller's lookup, its conflict check and its     *)
(* write are separate steps, and the other caller may run between them.      *)

MaxRaceId == 2

RaceCalls ==
    {Call("save", id, DataOf(1, k2, None), <<"name">>, <<>>, 1, FALSE) :
        id \in 0..MaxRaceId, k2 \in Vals}

OtherVars == <<pc, last, connector, pools, task, events, ran, callers, heap>>

RaceInvoke(p) ==
    /\ procs[p].pc = "idle"
    /\ \E call \in RaceCalls : \E sync \in BOOLEAN :
          procs' = [procs EXCEPT ![p] =
                       [IdleProc EXCEPT !.pc = "lookup", !.sync = sync, !.call = call]]
    /\ UNCHANGED <<table, nextId, OtherVars>>

RaceLookup(p) ==
    /\ procs[p].pc = "lookup"
    /\ \E g \in SaveLookup(table, procs[p].call) :
          procs' = [procs EXCEPT ![p] =
              IF g.err # NoErr
              THEN [@ EXCEPT !.pc = "done", !.err = g.err, !.stmts = g.stmts]
              ELSE IF ~Exists(g.row)
              THEN [@ EXCEPT !.pc = "insert", !.stmts = g.stmts]
              ELSE IF SubJsonFails(SubJsonKeys, procs[p].call.replace_keys,
                                   procs[p].call.data, g.row)
              THEN [@ EXCEPT !.pc = "done", !.err = Err("AttributeError", "", 0),
                             !.stmts = g.stmts]
              ELSE [@ EXCEPT !.pc = "check", !.old = g.row, !.stmts = g.stmts]]
    /\ UNCHANGED <<table, nextId, OtherVars>>

RaceCheck(p) ==
    /\ procs[p].pc = "check"
    /\ \E chk \in SaveCheck(table, procs[p].sync, procs[p].call, procs[p].old) :
          procs' = [procs EXCEPT ![p] =
              IF chk.err # NoErr
              THEN [@ EXCEPT !.pc = "done", !.err = chk.err, !.stmts = @ \o chk.stmts]
              ELSE [@ EXCEPT !.pc = "update", !.stmts = @ \o chk.stmts]]
    /\ UNCHANGED <<table, nextId, OtherVars>>

\* the write of caller p.  The race field keeps the history of the
\* interleaving: "first" for a caller that wrote while the other one had
\* passed its checks and not written yet, then "second" for that other one
\* when it writes and "paired" for the first.
Poised(q) == procs[q].pc \in {"insert", "update"}

RaceWritten(p, o) ==
    /\ o.nid <= MaxRaceId + 1
    /\ table' = o.tbl
    /\ nextId' = o.nid
    /\ procs' = [q \in Procs |->
          IF q = p
          THEN [procs[p] EXCEPT !.pc = "done", !.ret = o.ret, !.err = o.err,
                                !.stmts = o.stmts,
                                !.race = IF \E x \in Procs \ {p} : Poised(x) THEN "first"
                                         ELSE IF \E x \in Procs \ {p} : procs[x].race = "first"
                                         THEN "second" ELSE "no"]
          ELSE IF procs[q].race = "first" THEN [procs[q] EXCEPT !.race = "paired"]
          ELSE procs[q]]
    /\ UNCHANGED OtherVars

RaceInsert(p) ==
    /\ procs[p].pc = "insert"
    /\ RaceWritten(p, SaveInsert(table, nextId, procs[p].sync, procs[p].call, procs[p].stmts))

RaceUpdate(p) ==
    /\ procs[p].pc = "update"
    /\ RaceWritten(p, SaveUpdate(table, nextId, procs[p].sync, procs[p].call,
                                 procs[p].old, procs[p].stmts))

RaceReturn(p) ==
    /\ procs[p].pc = "done"
    /\ procs' = [procs EXCEPT ![p] = IdleProc]
    /\ UNCHANGED <<table, nextId, OtherVars>>

NextRace ==
    \E p \in Procs :
        \/ RaceInvoke(p) \/ RaceLookup(p) \/ RaceCheck(p)
        \/ RaceInsert(p) \/ RaceUpdate(p) \/ RaceReturn(p)

SpecRace == Init /\ [][NextRace]_vars

\* both callers have completed a save of the same unique-key values, and
\* both had passed the lookup and the conflict check before either wrote
BothSaved ==
    /\ \A p \in Procs : procs[p].pc = "done" /\ procs[p].err = NoErr
    /\ {procs[p].race : p \in Procs} = {"paired", "second"}
    /\ \A k \in Range(UniqKeys) : procs[1].call.data[k] = procs[2].call.data[k]

HoldsTuple(id, call) ==
    \E r \in table : r["id"] = id /\ \A k \in Range(UniqKeys) : r[k] = call.data[k]

\* C5: with no unique constraint in the database, two concurrent saves of
\* the same unique-key values that both passed the lookup and the conflict
\* check both write: when both have inserted, two distinct rows hold the
\* tuple, and when both have updated (different ids), both rows hold it.
C5_BothWrite ==
    BothSaved =>
        /\ (\A p \in Procs : Issued("INSERT", procs[p].stmts) = 1) =>
              /\ procs[1].ret # procs[2].ret
              /\ \A p \in Procs : HoldsTuple(procs[p].ret, procs[p].call)
        /\ (/\ \A p \in Procs : Issued("UPDATE", procs[p].stmts) = 1
            /\ procs[1].call.id # procs[2].call.id) =>
              \A p \in Procs : HoldsTuple(procs[p].ret, procs[p].call)

\* both callers have inserted and two rows hold the same unique-key tuple
C5_Witness ==
    /\ BothSaved
    /\ \A p \in Procs : Issued("INSERT", procs[p].stmts) = 1
    /\ \E r1 \in table : \E r2 \in table :
          /\ r1["id"] # r2["id"]
          /\ \A k \in Range(UniqKeys) : r1[k] # None /\ r1[k] = r2[k]

----------------------------------------------------------------------------
(* The connector and run_with_pool: one statement call on the default or  *)
(* on a caller-supplied cursor, while other callers connect and close.      *)

MaxPools == 3

\* callbacks that modules register with on_connected, at most MaxEvents
MaxEvents == 2

Callbacks == {"a", "b"}

ClosePool(ps, i) == IF i = NoPool THEN ps ELSE [ps EXCEPT ![i] = "closed"]

\* PGConnnector.connect: the pool held is closed, a new pool is created
connector_connect(c, ps) ==
    [connector |-> [c EXCEPT !.pool = Len(ps) + 1],
     pools     |-> Append(ClosePool(ps, c.pool), "open")]

DbVars == <<table, nextId, pc, last, procs, callers, heap>>

\* on_connected(func): func is appended to _connected_events
OnConnected ==
    /\ Len(events) < MaxEvents
    /\ \E f \in Callbacks : events' = Append(events, f)
    /\ UNCHANGED <<connector, pools, task, ran, DbVars>>

\* connect(config): a new connector replaces _connector and connects, then
\* every registered callback runs; when create_pool raises, the new
\* connector is left without a pool.  ran[i] lists the callbacks run for
\* pool i.
PoolConnect ==
    /\ Len(pools) < MaxPools
    /\ \/ LET r == connector_connect([installed |-> TRUE, pool |-> NoPool], pools)
          IN  /\ connector' = r.connector
              /\ pools' = r.pools
              /\ ran' = Append(ran, events)
       \/ /\ connector' = [installed |-> TRUE, pool |-> NoPool]
          /\ pools' = pools
          /\ ran' = ran
    /\ UNCHANGED <<task, events, DbVars>>

\* close(): the pool of the connector is closed
PoolClose ==
    /\ connector.installed
    /\ connector.pool # NoPool
    /\ pools' = ClosePool(pools, connector.pool)
    /\ UNCHANGED <<connector, task, events, ran, DbVars>>

\* mutant: the connection is kept when the unit of work ends
Release_Leaks(t) == t

\* leaving `async with ... acquire() as conn`: the connection goes back
Release(t) ==
    [t EXCEPT !.held = NoPool,
              !.borrowed = IF t.held # NoPool THEN @ - 1 ELSE @]

Raise(t, err) == [Release(t) EXCEPT !.pc = "returned", !.err = err]

\* mutant: the call goes to the driver without looking at the connector
CallStart_Unchecked ==
    /\ task.pc = "idle"
    /\ \E cur \in BOOLEAN :
          task' = [IdleTask EXCEPT !.pc = IF cur THEN "run" ELSE "acquire",
                                   !.cur = cur, !.tries = 1]
    /\ UNCHANGED <<connector, pools, events, ran, DbVars>>

\* run(): the call starts; without a connector it raises, and so does
\* _connector.get() on the default path when the connector has no pool
CallStart ==
    /\ task.pc = "idle"
    /\ \E cur \in BOOLEAN :
          task' = IF ~connector.installed
                  THEN Raise([IdleTask EXCEPT !.cur = cur], "not connected")
                  ELSE IF ~cur /\ connector.pool = NoPool
                  THEN Raise([IdleTask EXCEPT !.cur = cur, !.tries = 1], "no connected")
                  ELSE [IdleTask EXCEPT !.pc = IF cur THEN "run" ELSE "acquire",
                                        !.cur = cur, !.tries = 1]
    /\ UNCHANGED <<connector, pools, events, ran, DbVars>>

\* the driver is called: acquire, or the execute of f
Driver(t) == [t EXCEPT !.calls = @ + 1]

\* mutant: the handler reconnects whether or not a cursor was supplied
Except_AnyPath(t, msg) ==
    IF msg # "closing"
    THEN /\ task' = [Raise(t, msg) EXCEPT !.failed = msg]
         /\ UNCHANGED <<connector, pools, ran>>
    ELSE /\ Len(pools) < MaxPools
         /\ LET r == connector_connect(connector, pools)
            IN  connector' = r.connector /\ pools' = r.pools
         /\ ran' = Append(ran, <<>>)
         /\ task' = [Release(t) EXCEPT !.pc = IF t.cur THEN "run" ELSE "acquire",
                                       !.failed = msg,
                                       !.tries = @ + 1, !.reconnects = @ + 1]

\* except RuntimeError as e, for the call t that a driver call has failed
\* with msg: raised again for a supplied cursor and for a message without
\* 'closing'; otherwise _connector.connect() and run() again
Except(t, msg) ==
    IF t.cur \/ msg # "closing"
    THEN /\ task' = [Raise(t, msg) EXCEPT !.failed = msg]
         /\ UNCHANGED <<connector, pools, ran>>
    ELSE \/ /\ Len(pools) < MaxPools
            /\ LET r == connector_connect(connector, pools)
               IN  connector' = r.connector /\ pools' = r.pools
            /\ ran' = Append(ran, <<>>)
            /\ task' = [Release(t) EXCEPT !.pc = "acquire", !.failed = msg,
                                          !.tries = @ + 1, !.reconnects = @ + 1]
         \/ /\ pools' = ClosePool(pools, connector.pool)
            /\ connector' = connector
            /\ ran' = ran
            /\ task' = [Raise(t, "connect failed") EXCEPT !.failed = msg]

\* _connector.get().acquire(): a closed pool raises RuntimeError 'closing'
Acquire ==
    /\ task.pc = "acquire"
    /\ IF connector.pool = NoPool
       THEN task' = Raise(task, "no connected") /\ UNCHANGED <<connector, pools, ran>>
       ELSE IF pools[connector.pool] = "closed"
       THEN Except(Driver(task), "closing")
       ELSE /\ task' = [Driver(task) EXCEPT !.pc = "run", !.held = connector.pool,
                                            !.borrowed = @ + 1]
            /\ UNCHANGED <<connector, pools, ran>>
    /\ UNCHANGED <<events, DbVars>>

\* f(cur, ...) returns, or raises a RuntimeError (about a closing pool or
\* connection, or another one), or raises another exception; the borrowed
\* connection is released
RunF ==
    /\ task.pc = "run"
    /\ \/ /\ task' = [Release(Driver(task)) EXCEPT !.pc = "returned"]
          /\ UNCHANGED <<connector, pools, ran>>
       \/ Except(Driver(task), "closing")
       \/ Except(Driver(task), "runtime")
       \/ /\ task' = [Raise(Driver(task), "other") EXCEPT !.failed = "other"]
          /\ UNCHANGED <<connector, pools, ran>>
    /\ UNCHANGED <<events, DbVars>>

TaskReturn ==
    /\ task.pc = "returned"
    /\ task' = IdleTask
    /\ UNCHANGED <<connector, pools, events, ran, DbVars>>

NextPool ==
    \/ OnConnected \/ PoolConnect \/ PoolClose
    \/ CallStart \/ Acquire \/ RunF \/ TaskReturn

SpecPool == Init /\ [][NextPool]_vars

\* C10 as claimed: one call on the default path reconnects at most once and
\* runs at most twice; a second failure, 'closing' or not, is propagated
\* without another reconnect or retry.
C10_OneReconnectOneRetry == task.reconnects <= 1 /\ task.tries <= 2


\* C11 as claimed: every time a new pool is established, by connect() or by
\* a reconnect of the retry path, the callbacks registered with
\* on_connected run for that pool, each once, in registration order.
C11_CallbacksRunForEveryPool ==
    [][Len(pools') > Len(pools) => ran'[Len(pools')] = events]_vars

\* a call starts in this step, and no pool has been established
StartsUnconnected ==
    /\ task.pc = "idle" /\ task'.pc # "idle"
    /\ (~connector.installed \/ connector.pool = NoPool)

NotConnectedError == {"not connected", "no connected"}

\* C12 as claimed: any call started before a pool has been established
\* fails with the connector's not-connected error, with no driver call.
C12_AsClaimed ==
    [][StartsUnconnected =>
          /\ task'.pc = "returned"
          /\ task'.err \in NotConnectedError
          /\ task'.calls = 0]_vars

\* C12 amended: a call started before a pool has been established fails
\* with the connector's not-connected error, with no driver call, when no
\* connector is installed or when it runs on the default pool path (a call
\* given a cursor, with a connector that has no pool, runs on that cursor).
C12_NotConnected ==
    [][(StartsUnconnected /\ (~connector.installed \/ ~task'.cur)) =>
          /\ task'.pc = "returned"
          /\ task'.err \in NotConnectedError
          /\ task'.calls = 0]_vars

\* a default-path call after a connect() that installed no pool has failed
C12_Witness ==
    /\ task.pc = "returned" /\ ~task.cur
    /\ connector.installed /\ connector.pool = NoPool
    /\ task.err = "no connected"
    /\ task.calls = 0

\* the call takes a step in which it reconnects or starts another attempt
Reconnects ==
    /\ task' # task
    /\ task.pc \in {"acquire", "run"}
    /\ (connector' # connector \/ pools' # pools \/ task'.tries > task.tries)

\* the call takes a step in which a driver call fails on a supplied cursor
\* or with a message that does not say 'closing'
FailsOtherwise ==
    /\ task' # task
    /\ task.pc \in {"acquire", "run"}
    /\ task'.failed # ""
    /\ (task.cur \/ task'.failed # "closing")

\* C13: a reconnect is attempted only on the default path after a failure
\* that says 'closing'; a failure on a supplied cursor, and a failure that
\* does not say 'closing', is raised as it is, with no reconnect, no retry
\* and the pool of the connector unchanged.
C13_ReconnectOnlyOnClosing ==
    [][/\ Reconnects => (~task.cur /\ task'.failed = "closing")
       /\ FailsOtherwise =>
             /\ task'.pc = "returned"
             /\ task'.err = task'.failed
             /\ connector' = connector
             /\ pools' = pools
             /\ task'.tries = task.tries
             /\ task'.reconnects = task.reconnects]_vars

\* a 'closing' failure on a supplied cursor has been raised to the caller
C13_Witness ==
    /\ task.pc = "returned" /\ task.cur
    /\ task.failed = "closing" /\ task.err = "closing"
    /\ task.reconnects = 0 /\ task.tries = 1

\* C14: a call holds at most one borrowed connection, and holds none once
\* its unit of work has ended: when it has returned or raised, and when a
\* retry is about to acquire.
C14_ConnectionsReleased ==
    /\ task.borrowed <= 1
    /\ task.pc \in {"idle", "returned", "acquire"} =>
          (task.borrowed = 0 /\ task.held = NoPool)

\* a call that borrowed a connection, failed and reconnected is about to
\* acquire again, holding nothing
C14_Witness ==
    /\ task.pc = "acquire" /\ task.reconnects = 1
    /\ task.calls >= 2
    /\ task.borrowed = 0

----------------------------------------------------------------------------
(* The statement generators of gen_sql.py.  The text of a statement is     *)
(* held as its pieces in order, each with where it comes from: "sql" for the *)
(* generator's own words, "ident" for a table or column name, "raw" for a    *)
(* raw WHERE/JOIN/GROUP/ORDER fragment, "placeholder" for a %s, "value" for  *)
(* a value of the caller formatted into the text.                            *)

Piece(kind, text) == [kind |-> kind, text |-> text]

Sql(text) == <<Piece("sql", text)>>

\* the statement as the driver receives it
SqlText(pieces) == Join([i \in 1..Len(pieces) |-> pieces[i].text], "")

\* ', '.join of rendered items
RECURSIVE CommaJoin(_)
CommaJoin(items) ==
    IF items = <<>> THEN <<>>
    ELSE IF Len(items) = 1 THEN items[1]
    ELSE items[1] \o Sql(", ") \o CommaJoin(Tail(items))

\* str(TableName): the name in double quotes
get_table_name(table_name) == <<Piece("ident", "\"" \o table_name \o "\"")>>

columns_to_string(columns) ==
    CommaJoin([i \in 1..Len(columns) |-> <<Piece("ident", columns[i])>>])

PlaceholderList(n) == CommaJoin([i \in 1..n |-> <<Piece("placeholder", "%s")>>])

where_sql(part_sql) ==
    IF part_sql # "" THEN Sql(" WHERE ") \o <<Piece("raw", part_sql)>> ELSE <<>>

join_clause(join_sql) ==
    IF join_sql # "" THEN Sql(" ") \o <<Piece("raw", join_sql)>> \o Sql(" ") ELSE <<>>

format_group_and_sort_sql(groups, sorts) ==
    (IF groups # "" THEN Sql(" GROUP BY ") \o <<Piece("raw", groups)>> ELSE <<>>)
    \o (IF sorts # "" THEN Sql(" ORDER BY ") \o <<Piece("raw", sorts)>> ELSE <<>>)

gen_insert(table_name, columns, ret_column) ==
    Sql("INSERT INTO ") \o get_table_name(table_name) \o Sql(" (")
    \o columns_to_string(columns) \o Sql(") VALUES (")
    \o PlaceholderList(Len(columns)) \o Sql(")")
    \o (IF ret_column # "" THEN Sql(" returning ") \o <<Piece("ident", ret_column)>>
        ELSE <<>>)

\* append_update_set: col = %s
gen_update(table_name, columns, part_sql) ==
    Sql("UPDATE ") \o get_table_name(table_name) \o Sql(" SET ")
    \o CommaJoin([i \in 1..Len(columns) |->
          <<Piece("ident", columns[i])>> \o Sql(" = ") \o <<Piece("placeholder", "%s")>>])
    \o where_sql(part_sql)

gen_delete(table_name, part_sql) ==
    Sql("DELETE FROM ") \o get_table_name(table_name) \o where_sql(part_sql)

gen_count(table_name, part_sql, column, join_sql, groups) ==
    Sql("SELECT count(") \o <<Piece("ident", column)>> \o Sql(") FROM ")
    \o get_table_name(table_name) \o join_clause(join_sql) \o where_sql(part_sql)
    \o format_group_and_sort_sql(groups, "")

\* offset and size are formatted into the text
gen_select(table_name, columns, part_sql, offset, size, groups, sorts, join_sql) ==
    Sql("SELECT ") \o columns_to_string(columns) \o Sql(" FROM ")
    \o get_table_name(table_name) \o join_clause(join_sql) \o where_sql(part_sql)
    \o Sql(" ") \o format_group_and_sort_sql(groups, sorts)
    \o (IF size # None THEN Sql(" LIMIT ") \o <<Piece("value", ToString(size))>> ELSE <<>>)
    \o (IF offset # None THEN Sql(" OFFSET ") \o <<Piece("value", ToString(offset))>>
        ELSE <<>>)

gen_select_one(table_name, columns, part_sql, join_sql) ==
    Sql("SELECT ") \o columns_to_string(columns) \o Sql(" FROM ")
    \o get_table_name(table_name) \o join_clause(join_sql) \o where_sql(part_sql)
    \o Sql(" LIMIT 1")

\* the join of gen_ordering_sql: every element of arr is formatted into the
\* VALUES list, next to its position
gen_ordering_sql(column, arr) ==
    Sql("JOIN (VALUES ")
    \o CommaJoin([i \in 1..Len(arr) |->
          Sql("(") \o <<Piece("value", ToString(arr[i]))>> \o Sql(", ")
          \o Sql(ToString(i - 1)) \o Sql(")")])
    \o Sql(") AS x (id, ordering) ON ") \o <<Piece("ident", column)>> \o Sql(" = x.id")

\* the inputs of the generators
SqlColumns == {<<"id">>, <<"id", "name">>}

SqlParts == {"", "id=%s"}

SqlSizes == {None, 1, 2}

SqlArrs == {<<>>, <<2>>, <<2, 1>>}

SqlCalls ==
    {[op |-> "gen_insert", columns |-> cols, ret |-> ret] :
        cols \in SqlColumns, ret \in {"", "id"}}
    \cup {[op |-> "gen_update", columns |-> cols, part_sql |-> ps] :
        cols \in SqlColumns, ps \in SqlParts}
    \cup {[op |-> "gen_delete", part_sql |-> ps] : ps \in SqlParts}
    \cup {[op |-> "gen_count", part_sql |-> ps, join_sql |-> js, groups |-> g] :
        ps \in SqlParts, js \in {"", "JOIN u ON u.id = t.id"}, g \in {"", "name"}}
    \cup {[op |-> "gen_select", columns |-> cols, part_sql |-> ps, offset |-> off,
           size |-> size, groups |-> g, sorts |-> so] :
        cols \in SqlColumns, ps \in SqlParts, off \in SqlSizes, size \in SqlSizes,
        g \in {"", "name"}, so \in {"", "id desc"}}
    \cup {[op |-> "gen_select_one", columns |-> cols, part_sql |-> ps] :
        cols \in SqlColumns, ps \in SqlParts}
    \cup {[op |-> "gen_ordering_sql", arr |-> arr] : arr \in SqlArrs}

gen_sql(call) ==
    CASE call.op = "gen_insert" -> gen_insert("t", call.columns, call.ret)
      [] call.op = "gen_update" -> gen_update("t", call.columns, call.part_sql)
      [] call.op = "gen_delete" -> gen_delete("t", call.part_sql)
      [] call.op = "gen_count" ->
            gen_count("t", call.part_sql, "*", call.join_sql, call.groups)
      [] call.op = "gen_select" ->
            gen_select("t", call.columns, call.part_sql, call.offset, call.size,
                       call.groups, call.sorts, "")
      [] call.op = "gen_select_one" -> gen_select_one("t", call.columns, call.part_sql, "")
      [] call.op = "gen_ordering_sql" -> gen_ordering_sql("id", call.arr)

SqlLogged(call, pieces) == [call |-> call, sql |-> pieces, text |-> SqlText(pieces)]

InvokeSql ==
    /\ pc = "idle"
    /\ \E call \in SqlCalls : last' = SqlLogged(call, <<>>)
    /\ pc' = "called"
    /\ UNCHANGED <<table, nextId, procs, connector, pools, task, events, ran, callers, heap>>

Generate ==
    /\ pc = "called"
    /\ last' = SqlLogged(last.call, gen_sql(last.call))
    /\ pc' = "returned"
    /\ UNCHANGED <<table, nextId, procs, connector, pools, task, events, ran, callers, heap>>

NextSql == InvokeSql \/ Generate \/ Return

SpecSql == Init /\ [][NextSql]_vars

\* C15 as claimed: in the text of every generator, the ordering join and
\* the LIMIT/OFFSET of select included, no value of the caller is inlined:
\* the text holds the generator's words, identifiers, raw fragments and
\* placeholders only.
C15_NoValueInlined ==
    pc = "returned" => \A i \in 1..Len(last.sql) : last.sql[i].kind # "value"

----------------------------------------------------------------------------
(* gen_query as a function of its keyword arguments *)

MaxFilter == 3

CompileKeys == {<<"k1">>, <<"k1", "gte">>, <<"k2", "in">>, <<"name", "neq">>}

CompileVals(key) ==
    CASE key = <<"k1">> ->
            {FNone, FInt(1), FStr(<<"__IGNORE__">>), FList(<<>>), FList(<<FInt(1), FInt(2)>>)}
      [] key = <<"k2", "in">> ->
            {FStr(<<"1", "2">>), FStr(<<"select id from t">>), FList(<<FInt(1)>>)}
      [] OTHER -> {FInt(1), FList(<<FInt(2)>>)}

CompileItems == UNION {{Item(k, v) : v \in CompileVals(k)} : k \in CompileKeys}

\* the keyword arguments: at most MaxFilter of them, no key twice
CompileFilters ==
    {f \in UNION {[1..n -> CompileItems] : n \in 0..MaxFilter} :
        \A i \in 1..Len(f) : \A j \in 1..Len(f) : i # j => f[i].key # f[j].key}

SortKeys == {<<>>, <<"name">>, <<"k1">>, <<"name", "k1">>, <<"k2", "k1">>}

\* the trailing raw predicate with its positional arguments
Trailing == {[part_sql |-> "", args |-> <<>>], [part_sql |-> "id>%s", args |-> <<FInt(3)>>]}

CompileCalls ==
    {[op |-> "gen_query", filter |-> f, sort_keys |-> sk, part_sql |-> tr.part_sql,
      args |-> tr.args] : f \in CompileFilters, sk \in SortKeys, tr \in Trailing}

CompileLogged(call, unsorted, g) ==
    [call |-> call, unsorted |-> unsorted, sql |-> g.sql, args |-> g.args,
     query |-> g.query, err |-> g.err]

InvokeCompile ==
    /\ pc = "idle"
    /\ \E call \in CompileCalls :
          last' = CompileLogged(call, <<>>,
                                [sql |-> "", args |-> <<>>, query |-> <<>>, err |-> NoErr])
    /\ pc' = "called"
    /\ UNCHANGED <<table, nextId, procs, connector, pools, task, events, ran, callers, heap>>

\* unsorted is the list of predicates as the loop over data leaves it
GenQuery ==
    /\ pc = "called"
    /\ last' = CompileLogged(last.call,
                   DataLoop(<<>>, last.call.filter, <<>>, <<>>, 1).query,
                   gen_query(last.call.args, last.call.sort_keys, last.call.part_sql,
                             <<>>, <<>>, last.call.filter))
    /\ pc' = "returned"
    /\ UNCHANGED <<table, nextId, procs, connector, pools, task, events, ran, callers, heap>>

NextCompile == InvokeCompile \/ GenQuery \/ Return

SpecCompile == Init /\ [][NextCompile]_vars

Compiles == pc = "returned" /\ last.err = NoErr

\* the keyword arguments that are not None, in order
NonAbsent(filter) ==
    LET Given(it) == it.val.t # "none" IN SelectSeq(filter, Given)

\* the column and the operator the suffix table gives a key
Column(key) ==
    IF re_op_search(key) # "" THEN KeyName(SubSeq(key, 1, Len(key) - 1)) ELSE KeyName(key)

Operator(key) == IF re_op_search(key) # "" THEN op_map[re_op_search(key)] ELSE "="

\* the clauses that are column, operator and placeholders or a sub-select
Dispatched(key, val) ==
    {Column(key) \o Operator(key) \o "%s", Column(key) \o Operator(key) \o "(" \o val.s \o ")"}
    \cup {Column(key) \o Operator(key) \o "(" \o Placeholders(n) \o ")" : n \in 1..MaxFilter}

\* C16 as claimed: for every key and every value that is not absent,
\* scalar or list, the clause is the column with the suffix stripped and the
\* mapped operator, or the key unchanged and '=' when it has no suffix.
C16_SuffixDispatch ==
    Compiles =>
        LET given == NonAbsent(last.call.filter)
        IN  \A i \in 1..Len(given) :
                last.unsorted[i].sql \in Dispatched(given[i].key, given[i].val)

Prioritised(query, sort_keys) ==
    LET IsKey(q) == q.key \in Range(sort_keys) IN SelectSeq(query, IsKey)

Remaining(query, sort_keys) ==
    LET NotKey(q) == q.key \notin Range(sort_keys) IN SelectSeq(query, NotKey)

WithKey(query, key) == LET IsKey(q) == q.key = key IN SelectSeq(query, IsKey)

Occurrences(query) ==
    [q \in Range(query) |-> Cardinality({i \in 1..Len(query) : query[i] = q})]

Position(sort_keys, key) == CHOOSE i \in 1..Len(sort_keys) : sort_keys[i] = key

Slots(p) ==
    IF \E n \in 1..MaxFilter : p.sql = p.fkey \o " in (" \o Placeholders(n) \o ")"
    THEN CHOOSE n \in 1..MaxFilter : p.sql = p.fkey \o " in (" \o Placeholders(n) \o ")"
    ELSE IF p.sql = p.fkey \o p.op \o "%s" THEN 1
    ELSE 0

\* the values of a predicate, one for each placeholder of its clause
Bound(p) ==
    IF Slots(p) = 0 THEN <<>>
    ELSE IF p.val.t = "list" THEN p.val.l
    ELSE <<p.val>>

RECURSIVE BoundAll(_)
BoundAll(query) ==
    IF query = <<>> THEN <<>> ELSE Bound(query[1]) \o BoundAll(Tail(query))

RECURSIVE SlotsAll(_)
SlotsAll(query) ==
    IF query = <<>> THEN 0 ELSE Slots(query[1]) + SlotsAll(Tail(query))

\* C18 as claimed: the arguments gen_query returns are one for each
\* placeholder of the compiled predicates, in the order of the placeholders
\* (the elements of a list one by one, a scalar once), then the caller's
\* trailing arguments.
C18_ArgsMatchPlaceholders ==
    Compiles =>
        /\ Len(last.args) = SlotsAll(last.query) + Len(last.call.args)
        /\ last.args = BoundAll(last.query) \o last.call.args

----------------------------------------------------------------------------
(* get() on a table that saves have filled *)

GetCall(id, uniq_keys, optional_keys, required_uniq_keys, ignore_extra_keys, data) ==
    [op |-> "get", id |-> id, uniq_keys |-> uniq_keys, optional_keys |-> optional_keys,
     required_uniq_keys |-> required_uniq_keys, ignore_extra_keys |-> ignore_extra_keys,
     data |-> data]

GetCalls ==
    {GetCall(id, uk, ok, req, ign, DataOf(k1, k2, name)) :
        id \in {None, 1}, uk \in {<<>>, UniqKeys}, ok \in {<<>>, OptionalKeys},
        req \in BOOLEAN, ign \in BOOLEAN,
        k1 \in {None, 1}, k2 \in {None} \cup Vals, name \in {None, 1}}

GetLogged(call, g) == [call |-> call, row |-> g.row, err |-> g.err, stmts |-> g.stmts]

InvokeGet ==
    /\ pc = "idle"
    /\ \/ \E call \in SeedCalls : last' = Logged(call, NoOutcome)
       \/ \E call \in GetCalls : last' = GetLogged(call, GetResult(NoRow, NoErr, <<>>))
    /\ pc' = "called"
    /\ UNCHANGED <<table, nextId, procs, connector, pools, task, events, ran, callers, heap>>

GetRow ==
    /\ pc = "called" /\ last.call.op = "get"
    /\ \E g \in Get(table, last.call.id, last.call.uniq_keys, last.call.optional_keys,
                    last.call.required_uniq_keys, last.call.ignore_extra_keys,
                    last.call.data) :
          last' = GetLogged(last.call, g)
    /\ pc' = "returned"
    /\ UNCHANGED <<table, nextId, procs, connector, pools, task, events, ran, callers, heap>>

NextGet == InvokeGet \/ SaveAsync \/ GetRow \/ Return

SpecGet == Init /\ [][NextGet]_vars

GetReturned == pc = "returned" /\ last.call.op = "get"

\* the unique keys of the call that are absent from its keyword arguments
Absent(call) ==
    LET Missing(key) == call.data[key] = None IN SelectSeq(call.uniq_keys, Missing)

\* the rows that hold the unique-key values the call supplies
SuppliedUniq(call) ==
    LET Given(key) == call.data[key] # None
        given      == SelectSeq(call.uniq_keys, Given)
    IN  [i \in 1..Len(given) |-> Cond(given[i], call.data[given[i]])]

Latest(tbl, call) ==
    IF Matching(tbl, SuppliedUniq(call)) = {} THEN NoRow
    ELSE CHOOSE r \in Matching(tbl, SuppliedUniq(call)) :
             \A o \in Matching(tbl, SuppliedUniq(call)) : o["id"] <= r["id"]

\* a get by unique keys alone: no id, no other keyword argument
ByUniqOnly(call) ==
    /\ call.id = None
    /\ call.uniq_keys # <<>>
    /\ \A c \in DataCols \ Range(call.uniq_keys) : call.data[c] = NullOf(c)

\* C19 as claimed: without id, when a unique key declared optional is
\* absent, get returns the row of greatest id among the rows that match the
\* unique-key values supplied, none when there is no such row; when an absent
\* unique key is not declared optional and strict mode is on, it fails with
\* '<key> is required' and issues no query.
C19_LatestByUniqueKeys ==
    GetReturned /\ ByUniqOnly(last.call) /\ Absent(last.call) # <<>> =>
        /\ Range(Absent(last.call)) \subseteq Range(last.call.optional_keys) =>
              /\ last.err = NoErr
              /\ last.row = Latest(table, last.call)
        /\ (/\ last.call.required_uniq_keys
            /\ ~(Range(Absent(last.call)) \subseteq Range(last.call.optional_keys))) =>
              /\ last.err.kind = "key_required"
              /\ last.stmts = <<>>

\* a get with no criteria: no id and no unique keys
NoCriteria(call) == call.id = None /\ call.uniq_keys = <<>>

\* C20 as claimed: with no id and no unique keys get never issues a query;
\* it fails with 'uniq_keys is required' or returns none.
C20_AsClaimed ==
    GetReturned /\ NoCriteria(last.call) =>
        /\ last.stmts = <<>>
        /\ \/ last.err.kind = "uniq_keys_required"
           \/ last.err = NoErr /\ last.row = NoRow

\* C20: with no id and no unique keys, while required_uniq_keys is on, get
\* issues no query: it fails with 'uniq_keys is required', or returns none
\* when ignore_extra_keys is on.  With required_uniq_keys off it issues one
\* select on the other keyword arguments and returns what that finds.
C20_NoCriteria ==
    GetReturned /\ NoCriteria(last.call) =>
        IF last.call.required_uniq_keys
        THEN /\ last.stmts = <<>>
             /\ last.row = NoRow
             /\ IF last.call.ignore_extra_keys THEN last.err = NoErr
                ELSE last.err.kind = "uniq_keys_required"
        ELSE /\ last.stmts = <<"SELECT">>
             /\ last.err = NoErr
             /\ last.row \in select_one(table,
                    Extra(last.call.ignore_extra_keys, last.call.data, {}))

\* the strict failure on a table that holds a row the other arguments match
C20_Witness ==
    /\ GetReturned /\ NoCriteria(last.call)
    /\ last.call.required_uniq_keys /\ ~last.call.ignore_extra_keys
    /\ last.err.kind = "uniq_keys_required"
    /\ last.call.data["k1"] # None
    /\ Matching(table, Extra(FALSE, last.call.data, {})) # {}

----------------------------------------------------------------------------
(* save by an id that no row has *)

\* C21: save(id=X, ...) where no row has id X fails with the record-not-found
\* error, issues no INSERT and no UPDATE, does not invoke on_saved, and
\* leaves the table unchanged.
C21_SaveMissingId ==
    [][(Handled /\ last.call.op = "save" /\ last.call.id # None
        /\ ~HasId(table, last.call.id)) =>
          /\ last'.err.kind = "not_exists"
          /\ last'.err.oid = last.call.id
          /\ Issued("INSERT", last'.stmts) = 0
          /\ Issued("UPDATE", last'.stmts) = 0
          /\ last'.cbs = <<>>
          /\ table' = table]_vars

\* the failure of a save that carries values and a callback, on a table
\* that holds another row
C21_Witness ==
    /\ pc = "returned" /\ last.call.op = "save" /\ last.call.id # None
    /\ last.err.kind = "not_exists"
    /\ last.call.cb /\ last.call.data["k1"] # None
    /\ table # {} /\ ~HasId(table, last.call.id)

----------------------------------------------------------------------------
(* popup_data and make_data.  A row is a dict: Obj of a function from its   *)
(* keys to values.                                                           *)

\* d without the keys of ks
Without(d, ks) == Obj([k \in DOMAIN d.m \ ks |-> d.m[k]])

\* mutant: ret.update(data), the nested value wins
popup_data_NestedWins(ret) ==
    IF IsDict(ret)
    THEN IF IsDict(DictGet(ret, "data"))
         THEN DictUpdate(Without(ret, {"data"}), DictGet(ret, "data"))
         ELSE Without(ret, {"data"})
    ELSE ret

\* data = ret.pop('data', None); data.update(ret) when data is a dict
popup_data(ret) ==
    IF IsDict(ret)
    THEN IF IsDict(DictGet(ret, "data"))
         THEN DictUpdate(DictGet(ret, "data"), Without(ret, {"data"}))
         ELSE Without(ret, {"data"})
    ELSE ret

\* mutant: the excluded keys are read, not popped
make_data_NotPopped(data, exclude_data_keys) ==
    LET kept == {k \in Range(exclude_data_keys) : DictGet(data, k) # NullJ}
    IN  DictUpdate(Obj([k \in kept |-> data.m[k]]), Wrap("data", data))

\* new[k] for every excluded key popped with a value, then new['data'] = data
make_data(data, exclude_data_keys) ==
    LET kept == {k \in Range(exclude_data_keys) : DictGet(data, k) # NullJ}
    IN  DictUpdate(Obj([k \in kept |-> data.m[k]]),
                   Wrap("data", Without(data, Range(exclude_data_keys))))

\* the dicts over keys of ks with values of vals
Dicts(ks, vals) == {Obj(f) : f \in UNION {[dom -> vals] : dom \in SUBSET ks}}

\* the nested objects: their keys may repeat a key of the row, `data` too
NestedDicts == Dicts({"a", "c", "data"}, {Num(4)})

PopupRows == Dicts({"a", "b", "data"}, {NullJ, Num(1)} \cup NestedDicts)

\* the mappings given to make_data: no value is null
MakeRows == {r \in PopupRows : \A k \in DOMAIN r.m : r.m[k] # NullJ}

ExcludeKeys == {<<>>, <<"a">>, <<"b", "a">>, <<"data">>, <<"z">>}

PopupCalls ==
    {[op |-> "popup_data", row |-> r, exclude |-> <<>>] : r \in PopupRows}
    \cup {[op |-> "make_data", row |-> r, exclude |-> ex] :
            r \in MakeRows, ex \in ExcludeKeys}

PopupLogged(call, made, out) == [call |-> call, made |-> made, out |-> out]

InvokePopup ==
    /\ pc = "idle"
    /\ \E call \in PopupCalls : last' = PopupLogged(call, NullJ, NullJ)
    /\ pc' = "called"
    /\ UNCHANGED <<table, nextId, procs, connector, pools, task, events, ran, callers, heap>>

PopupData ==
    /\ pc = "called" /\ last.call.op = "popup_data"
    /\ last' = PopupLogged(last.call, NullJ, popup_data(last.call.row))
    /\ pc' = "returned"
    /\ UNCHANGED <<table, nextId, procs, connector, pools, task, events, ran, callers, heap>>

\* make_data on a copy of the mapping, and popup_data on what it returns
MakeData ==
    /\ pc = "called" /\ last.call.op = "make_data"
    /\ last' = PopupLogged(last.call, make_data(last.call.row, last.call.exclude),
                           popup_data(make_data(last.call.row, last.call.exclude)))
    /\ pc' = "returned"
    /\ UNCHANGED <<table, nextId, procs, connector, pools, task, events, ran, callers, heap>>

NextPopup == InvokePopup \/ PopupData \/ MakeData \/ Return

SpecPopup == Init /\ [][NextPopup]_vars

\* popup_data has returned for a row whose data is an object
Popped ==
    /\ pc = "returned" /\ last.call.op = "popup_data"
    /\ IsDict(DictGet(last.call.row, "data"))

TopKeys(row) == DOMAIN row.m \ {"data"}

NestedKeys(row) == DOMAIN row.m["data"].m

\* C22 as claimed: the result holds every key of the nested object and every
\* other top-level key of the row, no data entry, and the top-level value on
\* a key that both have.
C22_AsClaimed ==
    Popped =>
        /\ NestedKeys(last.call.row) \subseteq DOMAIN last.out.m
        /\ TopKeys(last.call.row) \subseteq DOMAIN last.out.m
        /\ "data" \notin DOMAIN last.out.m
        /\ \A k \in TopKeys(last.call.row) : last.out.m[k] = last.call.row.m[k]

\* C22: with popup, for a row whose data is an object, the result holds
\* exactly the keys of the nested object and the other top-level keys of the
\* row, with the top-level value where both have the key and the nested
\* value elsewhere; it has a data entry only when the nested object has a key
\* data of its own, and then with that key's value.
C22_Hoisted ==
    Popped =>
        /\ DOMAIN last.out.m = NestedKeys(last.call.row) \cup TopKeys(last.call.row)
        /\ \A k \in TopKeys(last.call.row) : last.out.m[k] = last.call.row.m[k]
        /\ \A k \in NestedKeys(last.call.row) \ TopKeys(last.call.row) :
               last.out.m[k] = last.call.row.m["data"].m[k]

\* a key with different values at top level and in the nested object
C22_Witness ==
    /\ Popped
    /\ "a" \in TopKeys(last.call.row) \cap NestedKeys(last.call.row)
    /\ last.call.row.m["a"] # last.call.row.m["data"].m["a"]
    /\ "c" \in NestedKeys(last.call.row)
    /\ "b" \in TopKeys(last.call.row)
    /\ last.out.m["a"] = last.call.row.m["a"]

Made == pc = "returned" /\ last.call.op = "make_data"

\* the excluded keys that the mapping has
Excluded(call) == Range(call.exclude) \cap DOMAIN call.row.m

\* C30 as claimed: for every mapping d without null values and every
\* exclude_data_keys, popup_data(make_data(copy of d, exclude_data_keys)) is
\* d, and make_data leaves exactly the excluded keys at top level and every
\* other key under data.
C30_AsClaimed ==
    Made =>
        /\ last.out = last.call.row
        /\ \A k \in Excluded(last.call) : DictGet(last.made, k) = last.call.row.m[k]
        /\ DOMAIN last.made.m \ {"data"} = Excluded(last.call) \ {"data"}
        /\ DictGet(last.made, "data") \in
              {Without(last.call.row, Range(last.call.exclude)), DictGet(last.call.row, "data")}

\* C30: for every mapping d without null values and every exclude_data_keys
\* that does not name a key data of d, popup_data(make_data(copy of d,
\* exclude_data_keys)) is d; make_data leaves the excluded keys of d other
\* than data at top level with their values, and under data every key that
\* is not excluded.  An excluded key data of d is lost: the entry data of
\* the result is the mapping of the other keys, and the round trip returns d
\* without it.
C30_RoundTrip ==
    Made =>
        /\ \A k \in Excluded(last.call) \ {"data"} :
               DictGet(last.made, k) = last.call.row.m[k]
        /\ DOMAIN last.made.m = (Excluded(last.call) \ {"data"}) \cup {"data"}
        /\ last.made.m["data"] = Without(last.call.row, Range(last.call.exclude))
        /\ IF "data" \in Excluded(last.call)
           THEN last.out = Without(last.call.row, {"data"})
           ELSE last.out = last.call.row

\* two keys excluded, one kept under data next to a nested data of d's own
C30_Witness ==
    /\ Made
    /\ last.call.exclude = <<"b", "a">>
    /\ DOMAIN last.call.row.m = {"a", "b", "data"}
    /\ IsDict(last.call.row.m["data"])
    /\ last.out = last.call.row
    /\ last.made # last.call.row

----------------------------------------------------------------------------
(* on_saved *)

Writes(stmts) == Issued("INSERT", stmts) + Issued("UPDATE", stmts)

\* a save with a callback returns after it has executed a write
Wrote ==
    /\ Handled /\ last.call.op = "save" /\ last.call.cb
    /\ last'.err = NoErr /\ Writes(last'.stmts) > 0

\* C23: when save, given a callback, has executed its INSERT or UPDATE, it
\* has invoked on_saved exactly once, after that statement, with (None, the
\* new id) for an insert and (the old record, the existing id) for an
\* update; in record.py a callback that gives a coroutine has been awaited,
\* so its body has run when save returns.
C23_SavedOnce ==
    [][Wrote =>
          /\ Len(last'.cbs) = 1
          /\ Writes(last'.stmts) = 1
          /\ LET cb    == last'.cbs[1]
                 write == last'.stmts[cb.at]
             IN  /\ cb.at = Len(last'.stmts)
                 /\ write \in {"INSERT", "UPDATE"}
                 /\ cb.id = last'.ret
                 /\ HasId(table', cb.id)
                 /\ write = "INSERT" => cb.old = NoRow /\ ~HasId(table, cb.id)
                 /\ write = "UPDATE" => cb.old["id"] = cb.id /\ HasId(table, cb.id)
                 /\ ~cb.sync => cb.done]_vars

\* an update in record.py with a coroutine callback
C23_Witness ==
    /\ pc = "returned" /\ last.call.op = "save" /\ last.call.cb /\ last.call.coro
    /\ Len(last.cbs) = 1 /\ ~last.cbs[1].sync /\ last.cbs[1].done
    /\ Issued("UPDATE", last.stmts) = 1
    /\ last.cbs[1].old["id"] = last.ret

----------------------------------------------------------------------------
(* The pools left open *)

OpenPools == {i \in 1..Len(pools) : pools[i] = "open"}

\* C28 as claimed: at most one pool is open at any time; when a pool is
\* installed, by a first or a repeated connect() or by a reconnect, every
\* pool installed before it has been closed, so every open pool is the one
\* the connector holds.
C28_OneOpenPool ==
    /\ Cardinality(OpenPools) <= 1
    /\ \A i \in OpenPools : connector.installed /\ connector.pool = i

----------------------------------------------------------------------------
(* Callers of run() on the default path that run concurrently.  A caller   *)
(* is suspended where run() awaits: in create_pool and in f.               *)

CallerVars == <<table, nextId, pc, last, procs, task, heap>>

\* connect(config) at startup, before any caller runs
FirstConnect == ~connector.installed /\ callers = [p \in Procs |-> IdleCaller] /\ PoolConnect

\* run(), called or called again after a reconnect: _connector.get() gives
\* the pool and acquire() on it gives a connection, or, on a closed pool,
\* raises RuntimeError 'closing'; the handler then calls
\* _connector.connect(), which closes the pool held and awaits create_pool
CallerStart(p) ==
    /\ callers[p].pc \in {"idle", "again"}
    /\ connector.installed /\ connector.pool # NoPool
    /\ LET c == IF callers[p].pc = "idle" THEN IdleCaller ELSE callers[p]
       IN  IF pools[connector.pool] = "open"
           THEN /\ callers' = [callers EXCEPT ![p] = [c EXCEPT !.pc = "run"]]
                /\ pools' = pools
           ELSE /\ callers' = [callers EXCEPT ![p] =
                                  [c EXCEPT !.pc = "create_pool",
                                            !.stale = connector.pool]]
                /\ pools' = ClosePool(pools, connector.pool)
    /\ UNCHANGED <<connector, events, ran, CallerVars>>

\* create_pool returns: self.pool = the new pool, and run() is called again.
\* No callback of _connected_events is run.
CallerInstall(p) ==
    /\ callers[p].pc = "create_pool"
    /\ Len(pools) < MaxPools
    /\ pools' = Append(pools, "open")
    /\ connector' = [connector EXCEPT !.pool = Len(pools) + 1]
    /\ ran' = Append(ran, <<>>)
    /\ callers' = [callers EXCEPT ![p].pc = "again",
                                  ![p].created = Append(@, Len(pools) + 1)]
    /\ UNCHANGED <<events, CallerVars>>

\* f returns and the connection goes back to its pool
CallerRun(p) ==
    /\ callers[p].pc = "run"
    /\ callers' = [callers EXCEPT ![p].pc = "idle"]
    /\ UNCHANGED <<connector, pools, events, ran, CallerVars>>

NextCallers ==
    \/ OnConnected \/ FirstConnect \/ PoolClose
    \/ \E p \in Procs : CallerStart(p) \/ CallerInstall(p) \/ CallerRun(p)

SpecCallers == Init /\ [][NextCallers]_vars

\* caller p installs the pool of its reconnect in this step
Installs(p) == Len(callers'[p].created) > Len(callers[p].created)

\* another caller has reconnected for the stale pool that p found closing
Redundant(p) ==
    \E q \in Procs \ {p} :
        callers[q].stale = callers[p].stale /\ callers[q].created # <<>>

\* C24 as claimed: callers that find the same stale pool closing each
\* reconnect, so that a second pool is created for that stale pool, and the
\* on-connected callbacks run again for it.
C24_RedundantReconnect ==
    [][\A p \in Procs : Installs(p) /\ Redundant(p) =>
          /\ Len(pools') = Len(pools) + 1
          /\ pools'[Len(pools')] = "open"
          /\ ran'[Len(pools')] = events]_vars


(***************************************************************************)
(* TableName values.  heap.objs are the TableName objects in order of      *)
(* construction, heap.lists the list objects their joins fields refer to;  *)
(* list 1 is the default value of the joins parameter, evaluated once      *)
(* when the class is defined and shared by every call that omits joins.    *)
(* The field from names the receiver a value was derived from.             *)
(***************************************************************************)
MaxObjs == 4
DefaultJoins == 1
TableNames == {"t", "u"}
AliasNames == {"a", "b"}
JoinWheres == {"w"}

HeapVars == <<table, nextId, pc, last, procs, connector, pools, task,
              events, ran, callers>>

\* TableName.__init__: the fields refer to the arguments as given
TableName(h, table_name, alias_name, joins, from) ==
    [h EXCEPT !.objs = Append(@, [table_name |-> table_name,
                                  alias_name |-> alias_name,
                                  joins |-> joins, from |-> from])]

\* self.joins[:] : a new list with the elements of the receiver's list
CopyJoins(h, o) == [h EXCEPT !.lists = Append(@, h.lists[h.objs[o].joins])]

\* t(table_name): alias and joins take their defaults
t(h, table_name) == TableName(h, table_name, 0, DefaultJoins, 0)

alias(h, o, a) ==
    LET c == CopyJoins(h, o)
    IN  TableName(c, h.objs[o].table_name, a, Len(c.lists), o)

\* a join that appends to the receiver's own list and hands it on
join_InPlace(h, o, tn, where) ==
    LET j == h.objs[o].joins
        c == [h EXCEPT !.lists[j] = Append(@, [table_name |-> tn,
                                               where |-> where])]
    IN  TableName(c, h.objs[o].table_name, h.objs[o].alias_name, j, o)

join(h, o, tn, where) ==
    LET c == CopyJoins(h, o)
        j == Len(c.lists)
        a == [c EXCEPT !.lists[j] = Append(@, [table_name |-> tn,
                                               where |-> where])]
    IN  TableName(a, h.objs[o].table_name, h.objs[o].alias_name, j, o)

Objs == 1..Len(heap.objs)

NewTable ==
    /\ Len(heap.objs) < MaxObjs
    /\ \E n \in TableNames : heap' = t(heap, n)
    /\ UNCHANGED HeapVars

DeriveAlias ==
    /\ Len(heap.objs) < MaxObjs
    /\ \E o \in Objs, a \in AliasNames : heap' = alias(heap, o, a)
    /\ UNCHANGED HeapVars

DeriveJoin ==
    /\ Len(heap.objs) < MaxObjs
    /\ \E o \in Objs, tn \in Objs, w \in JoinWheres :
          heap' = join(heap, o, tn, w)
    /\ UNCHANGED HeapVars

NextTables == NewTable \/ DeriveAlias \/ DeriveJoin

SpecTables == Init /\ [][NextTables]_vars

\* the join list of object o, as str(o) reads it
JoinsOf(h, o) == h.lists[h.objs[o].joins]

\* C25: alias() and join() return a new TableName, and no step, however
\* many derivations later, changes the name, the alias or the join list of
\* a TableName that exists.
C25_ReceiverUnchanged ==
    [][/\ Len(heap'.objs) = Len(heap.objs) + 1
       /\ \A o \in Objs : /\ heap'.objs[o] = heap.objs[o]
                          /\ JoinsOf(heap', o) = JoinsOf(heap, o)]_vars

\* a join derived from a receiver built with the default join list, which
\* the receiver does not show
C25_Witness ==
    \E d \in Objs :
        /\ heap.objs[d].from # 0
        /\ heap.objs[heap.objs[d].from].joins = DefaultJoins
        /\ JoinsOf(heap, d) # <<>>
        /\ JoinsOf(heap, heap.objs[d].from) = <<>>


----------------------------------------------------------------------------
(* insert_or_update.  A column is the words of its text; str(column) puts  *)
(* them back together with single blanks.                                  *)

ColumnText(column) == Join(column, " ")

ColumnList(columns) ==
    CommaJoin([i \in 1..Len(columns) |-> <<Piece("ident", ColumnText(columns[i]))>>])

\* col.find('=') > -1
HasEquals(column) == \E i \in 1..Len(column) : column[i] = "="

\* a set item that is always built from the column name
append_excluded_set_Always(column) ==
    <<Piece("ident", ColumnText(column))>> \o Sql(" = excluded.")
    \o <<Piece("ident", ColumnText(column))>>

append_excluded_set(column) ==
    IF HasEquals(column)
    THEN <<Piece("ident", ColumnText(column))>>
    ELSE <<Piece("ident", ColumnText(column))>> \o Sql(" = excluded.")
         \o <<Piece("ident", ColumnText(column))>>

\* gen_sql.gen_insert_or_update, and the same lines inside the asynchronous
\* insert_or_update
gen_insert_or_update(table_name, uniq_columns, value_columns, other_columns) ==
    LET cols == uniq_columns \o value_columns \o other_columns
        set_sql == CommaJoin([i \in 1..Len(value_columns) |->
                                 append_excluded_set(value_columns[i])])
        do_sql == IF value_columns # <<>>
                  THEN Sql(" DO UPDATE SET ") \o set_sql
                  ELSE Sql(" DO NOTHING")
    IN  Sql("INSERT INTO ") \o get_table_name(table_name) \o Sql(" (")
        \o ColumnList(cols) \o Sql(") VALUES (")
        \o PlaceholderList(Len(cols)) \o Sql(") ON CONFLICT (")
        \o ColumnList(uniq_columns) \o Sql(") ") \o do_sql

UniqColumns == {<<<<"id">>>>, <<<<"id">>, <<"k">>>>, <<>>}
ValueColumns == {<<>>, <<<<"n">>>>, <<<<"n">>, <<"m">>>>,
                 <<<<"n", "=", "t.n", "+", "1">>>>,
                 <<<<"m">>, <<"n", "=", "t.n", "+", "1">>>>}
OtherColumns == {<<>>, <<<<"w">>>>, <<<<"w">>, <<"x">>>>}

UpsertCalls ==
    [op : {"insert_or_update"}, sync : BOOLEAN, uniq_columns : UniqColumns,
     value_columns : ValueColumns, other_columns : OtherColumns]

InvokeUpsert ==
    /\ pc = "idle"
    /\ \E call \in UpsertCalls : last' = SqlLogged(call, <<>>)
    /\ pc' = "called"
    /\ UNCHANGED <<table, nextId, procs, connector, pools, task, events, ran, callers, heap>>

InsertOrUpdate ==
    /\ pc = "called"
    /\ last' = SqlLogged(last.call,
                         gen_insert_or_update("t", last.call.uniq_columns,
                                              last.call.value_columns,
                                              last.call.other_columns))
    /\ pc' = "returned"
    /\ UNCHANGED <<table, nextId, procs, connector, pools, task, events, ran, callers, heap>>

NextUpsert == InvokeUpsert \/ InsertOrUpdate \/ Return

SpecUpsert == Init /\ [][NextUpsert]_vars

Upserted == pc = "returned" /\ last.call.op = "insert_or_update"

Texts(columns) == Join([i \in 1..Len(columns) |-> ColumnText(columns[i])], ", ")

PlaceholderPieces(pieces) == {i \in 1..Len(pieces) : pieces[i].kind = "placeholder"}

\* the statement up to the conflict action: columns and placeholders in the
\* order U, V, W, and U as the conflict target
UpsertHead(U, V, W) ==
    "INSERT INTO \"t\" (" \o Texts(U \o V \o W) \o ") VALUES ("
    \o Placeholders(Len(U) + Len(V) + Len(W)) \o ") ON CONFLICT (" \o Texts(U) \o ") "

ExcludedSet(column) == ColumnText(column) \o " = excluded." \o ColumnText(column)

\* C26 as claimed: |U|+|V|+|W| placeholders, columns in the order U, V, W,
\* conflict target U, DO NOTHING exactly when V is empty, and otherwise one
\* `col = excluded.col` per column of V in order.
C26_AsClaimed ==
    Upserted =>
        LET U == last.call.uniq_columns
            V == last.call.value_columns
            W == last.call.other_columns
        IN  /\ Cardinality(PlaceholderPieces(last.sql)) = Len(U) + Len(V) + Len(W)
            /\ last.text = UpsertHead(U, V, W) \o
                  (IF V = <<>> THEN " DO NOTHING"
                   ELSE " DO UPDATE SET " \o
                        Join([i \in 1..Len(V) |-> ExcludedSet(V[i])], ", "))

\* C26 amended: as claimed, except that a column of V whose text holds an
\* '=' is its own set item, word for word.
C26_Upsert ==
    Upserted =>
        LET U == last.call.uniq_columns
            V == last.call.value_columns
            W == last.call.other_columns
        IN  /\ Cardinality(PlaceholderPieces(last.sql)) = Len(U) + Len(V) + Len(W)
            /\ last.text = UpsertHead(U, V, W) \o
                  (IF V = <<>> THEN " DO NOTHING"
                   ELSE " DO UPDATE SET " \o
                        Join([i \in 1..Len(V) |->
                                 IF HasEquals(V[i]) THEN ColumnText(V[i])
                                 ELSE ExcludedSet(V[i])], ", "))

\* an upsert with a plain and a written-out value column and other columns
C26_Witness ==
    /\ Upserted
    /\ \E i, j \in 1..Len(last.call.value_columns) :
          /\ HasEquals(last.call.value_columns[i])
          /\ ~HasEquals(last.call.value_columns[j])
    /\ last.call.other_columns # <<>>
    /\ last.call.uniq_columns # <<>>


----------------------------------------------------------------------------
(* Sorts, groups and fields of get_list and count.  The text of such an    *)
(* argument is held as its tokens in order: a blank, a comma, or a name,   *)
(* which is the sequence of its parts between dots.  The names given keep  *)
(* at least one part after a JSON column prefix.                           *)

SP == <<" ">>
CM == <<",">>

Text(s) == Join([i \in 1..Len(s) |-> Join(s[i], ".")], "")

\* s.rfind(' '), counted from 1; 0 when there is none
RFindSpace(s) ==
    LET at == {i \in 1..Len(s) : s[i] = SP}
    IN  IF at = {} THEN 0 ELSE CHOOSE i \in at : \A j \in at : j <= i

RECURSIVE SplitComma(_)
SplitComma(s) ==
    LET at == {i \in 1..Len(s) : s[i] = CM}
    IN  IF at = {} THEN <<s>>
        ELSE LET i == CHOOSE k \in at : \A j \in at : k <= j
             IN  <<SubSeq(s, 1, i - 1)>> \o SplitComma(SubSeq(s, i + 1, Len(s)))

RECURSIVE Strip(_)
Strip(s) ==
    IF s = <<>> THEN s
    ELSE IF s[1] = SP THEN Strip(Tail(s))
    ELSE IF s[Len(s)] = SP THEN Strip(SubSeq(s, 1, Len(s) - 1))
    ELSE s

\* key.split('.'): a blank belongs to the parts around it
RECURSIVE DotParts(_)
DotParts(s) ==
    IF s = <<>> THEN <<"">>
    ELSE IF Len(s) = 1 THEN s[1]
    ELSE LET front == DotParts(SubSeq(s, 1, Len(s) - 1))
             tk    == s[Len(s)]
         IN  SubSeq(front, 1, Len(front) - 1)
             \o <<front[Len(front)] \o tk[1]>> \o Tail(tk)

\* format_key on a dotted name, with val None
format_path(ks, text, json_keys) ==
    IF ks[1] \notin Range(json_keys) /\ ks[2] \notin Range(json_keys) THEN text
    ELSE LET first  == ks[1] \in Range(json_keys)
             prefix == IF first THEN ks[1] ELSE ks[1] \o "." \o ks[2]
             rest   == IF first THEN Tail(ks) ELSE Tail(Tail(ks))
             tp     == IF rest[Len(rest)] \in json_types THEN rest[Len(rest)] ELSE ""
             typed  == IF tp # "" THEN SubSeq(rest, 1, Len(rest) - 1) ELSE rest
             asName == IF "as" \in Range(typed) THEN typed[Len(typed)] ELSE ""
             path   == IF asName # "" THEN SubSeq(typed, 1, Len(typed) - 2) ELSE typed
             out    == prefix \o "#>>'{" \o Join(path, ", ") \o "}'"
             cast   == IF tp # "" THEN "cast(" \o out \o " as " \o tp \o ")" ELSE out
         IN  IF asName # "" THEN cast \o " as " \o asName ELSE cast

\* format_key of a name in text form, with val None; only record_utils.py
\* returns '*' as it is
format_name(sync, key, json_keys, keys) ==
    LET ks == DotParts(key)
    IN  IF sync /\ Text(key) = "*" THEN Text(key)
        ELSE IF Len(ks) = 1
        THEN IF keys = <<>> THEN Text(key)
             ELSE IF Text(key) \in Range(keys) THEN Text(key)
             ELSE IF "data" \notin Range(json_keys) THEN Text(key)
             ELSE format_path(<<"data">> \o ks, "data." \o Text(key), json_keys)
        ELSE format_path(ks, Text(key), json_keys)

format_fields(sync, fields, json_keys, keys) ==
    [i \in 1..Len(fields) |-> format_name(sync, Strip(fields[i]), json_keys, keys)]

format_groups(sync, groups, json_keys, keys) ==
    IF groups = <<>> THEN ""
    ELSE Join(format_fields(sync, SplitComma(groups), json_keys, keys), ",")

\* format_sorts of record.py, format_sorts_one of record_utils.py
format_sorts_one(sync, sorts, json_keys, keys) ==
    LET idx == RFindSpace(sorts)
        fsorts == format_groups(sync, SubSeq(sorts, 1, idx - 1), json_keys, keys)
    IN  IF sorts = <<>> THEN ""
        ELSE IF idx = 0 THEN format_groups(sync, sorts, json_keys, keys)
        ELSE IF fsorts = "" THEN fsorts
        ELSE fsorts \o Text(SubSeq(sorts, idx, Len(sorts)))

\* format_sorts of either module; record_utils.py formats the items one by
\* one and hands on neither json_keys nor keys
format_sorts(sync, sorts, json_keys, keys) ==
    IF ~sync THEN format_sorts_one(FALSE, sorts, json_keys, keys)
    ELSE IF sorts = <<>> THEN ""
    ELSE LET items == SplitComma(sorts)
             ones  == [i \in 1..Len(items) |->
                          format_sorts_one(TRUE, Strip(items[i]), <<>>, <<>>)]
         IN  Join(SelectSeq(ones, LAMBDA one : one # ""), ", ")

\* what get_list hands to select and count hands to the statement layer:
\* record.get_list / record.count, record_utils.prepare_get_list /
\* prepare_count
ListProps(sync, call) ==
    LET g == gen_query(<<>>, <<>>, "", call.json_keys, call.keys, call.filter)
    IN  [part_sql |-> g.sql, args |-> g.args,
         sorts    |-> IF call.op = "get_list"
                      THEN format_sorts(sync, call.sorts, call.json_keys, call.keys)
                      ELSE "",
         groups   |-> format_groups(sync, call.groups, call.json_keys, call.keys),
         columns  |-> IF call.op = "get_list"
                      THEN format_fields(sync, call.fields, call.json_keys, call.keys)
                      ELSE <<"*">>]

SortTexts ==
    {<<>>, <<<<"id">>, SP, <<"desc">>>>, <<<<"n">>>>,
     <<<<"n">>, SP, <<"desc">>>>, <<<<"data", "n">>, SP, <<"desc">>>>,
     <<<<"id">>, SP, <<"desc">>, CM, SP, <<"n">>, SP, <<"asc">>>>}
GroupTexts == {<<>>, <<<<"n">>>>, <<<<"data", "n">>>>}
FieldLists == {<< <<<<"*">>>> >>, << <<<<"id">>>>, <<<<"data", "n", "int">>>> >>}
ListFilters == {<<>>, <<Item(<<"k1">>, FInt(1))>>, <<Item(<<"n", "gte">>, FInt(2))>>}

ListCalls ==
    [op : {"get_list", "count"}, filter : ListFilters,
     json_keys : {<<>>, <<"data">>}, keys : {<<>>, <<"id">>},
     fields : FieldLists, groups : GroupTexts, sorts : SortTexts]

NoProps == [part_sql |-> "", args |-> <<>>, sorts |-> "", groups |-> "",
            columns |-> <<>>]

InvokeList ==
    /\ pc = "idle"
    /\ \E call \in ListCalls :
          last' = [call |-> call, async |-> NoProps, sync |-> NoProps]
    /\ pc' = "called"
    /\ UNCHANGED <<table, nextId, procs, connector, pools, task, events, ran, callers, heap>>

PrepareAsync ==
    /\ pc = "called"
    /\ last' = [last EXCEPT !.async = ListProps(FALSE, last.call)]
    /\ pc' = "prepared"
    /\ UNCHANGED <<table, nextId, procs, connector, pools, task, events, ran, callers, heap>>

PrepareSync ==
    /\ pc = "prepared"
    /\ last' = [last EXCEPT !.sync = ListProps(TRUE, last.call)]
    /\ pc' = "returned"
    /\ UNCHANGED <<table, nextId, procs, connector, pools, task, events, ran, callers, heap>>

NextList == InvokeList \/ PrepareAsync \/ PrepareSync \/ Return

SpecList == Init /\ [][NextList]_vars

\* C27 as claimed: given the same filter, json_keys, keys, fields, groups
\* and sorts, prepare_get_list and prepare_count produce the predicate, the
\* arguments, the column list, the GROUP BY and the ORDER BY that get_list
\* and count of the asynchronous layer produce.
C27_SameProps ==
    pc = "returned" /\ last.call.op \in {"get_list", "count"} =>
        last.sync = last.async


----------------------------------------------------------------------------
(* The old record of on_saved *)

\* C29 as claimed: the old record handed to on_saved after an update is the
\* row as it was stored before the save; the merges of the json_keys and
\* sub_json_keys columns leave the loaded record and its nested objects as
\* they were.
C29_OldRecordIntact ==
    [][Wrote /\ Issued("UPDATE", last'.stmts) = 1 =>
          /\ Len(last'.cbs) = 1
          /\ last'.cbs[1].old = RowById(table, last'.cbs[1].id)]_vars

=============================================================================
